---- MODULE Spec2Model ----
(***************************************************************************)
(* Model of golibbuttplug's session layer: the asynchronous Sender         *)
(* (message/sender.go), the Receiver and its broadcast hub                 *)
(* (message/receiver.go) and the Client built on both (client.go).         *)
(*                                                                         *)
(* Go channels are modelled by their contents and a "closed" flag.  A      *)
(* communication on an unbuffered channel is one step taken jointly by the *)
(* sending goroutine and the hub goroutine, together with the body of the  *)
(* hub's select case (the hub owns its registry, nobody can observe the    *)
(* registry between the rendezvous and the end of the case body).  A Go    *)
(* select with several ready cases is a nondeterministic choice among      *)
(* them; the default case is taken only when no other case is ready.  A    *)
(* send on a closed channel is a ready case of a select and panics when    *)
(* chosen; a panic ends the whole process (panicked).                      *)
(***************************************************************************)
EXTENDS Integers, Sequences, FiniteSets, TLC

(***************************************************************************)
(* Program constants and bounds of the model.                              *)
(***************************************************************************)
\* const bufferSize = 256 (capacity of Sender.out)
bufferSize == 256

\* Bound: number of Send calls made by the free producers of SpecSender.
MaxSends == 258

\* Bound: number of those Send calls made after Stop has closed b.stop.
MaxLateSends == 2

\* Bound: number of messages the write worker of SpecSender takes.
MaxWrites == 3

\* make(chan IncomingMessage, 10): capacity of a Reader's queue
readerBuf == 10

\* testReceive(t, 10, ...): the subscribers of receiver_test.go leave after
\* the message with ID nMsg-1
nMsg == 10

\* Bound: number of messages the mock server of SpecHub sends.
MaxPub == 11

\* Bound: number of messages in one frame read by Receiver.run.
MaxFrame == 2

\* Bound: messages read from the connection and dropped after Stop (SpecHub).
MaxDropped == 2

\* Bound: width of IDCounter.value, scaled down from 2^32.
IDModulus == 16

\* Bound: number of pings pingLoop starts.
MaxPings == 2

\* Bound: number of messages the server sends unasked (device events).
MaxEvents == 1

\* Bound: number of messages the server sends unasked in SpecDev.
MaxDevEvents == 2

\* Bound: number of device commands that reach sendMessage in SpecCmd.
MaxCmds == 1

\* Bound: the units a float64 of the model is counted in, 1.0 is SpeedScale.
SpeedScale == 10

\* The largest command KiirooCmd takes (device.go).
maxKiiroo == 4

\* The largest position and the largest speed FleshlightLaunchFW12Cmd takes
\* (device.go).
maxLaunch == 99

\* Bound: the largest MaxPingTime the server advertises, in milliseconds.
MaxAdvertised == 1100

\* time.Second in milliseconds, the unit of MaxPingTime (client.go).
second == 1000

VARIABLES
    \* ---- Sender (message/sender.go) ----
    out,          \* contents of the buffered channel Sender.out
    outClosed,    \* close(b.out) was executed
    senderStop,   \* close(b.stop) was executed
    senderOnce,   \* Sender.once: "new", "running" (inside Do), "done"
    wlpc,         \* writeLoop: "range", "write", "close", "done"
    v,            \* writeLoop's loop variable (0: none)
    writes,       \* messages passed to conn.WriteJSON, in call order
    closeMsg,     \* conn.WriteMessage(CloseMessage) was called
    accepted,     \* history: messages whose Send returned nil, in order
    sendCalls,    \* history: number of Send calls so far
    lateSends,    \* history: number of Send calls made after close(b.stop)
    lastSend,     \* history: the last Send call and its result
    panicked,     \* a goroutine panicked: the process is gone
    \* ---- hub (message/receiver.go) ----
    readers,      \* hub.readers: the registered Readers
    buf,          \* Reader.buf: contents of each Reader's buffered channel
    bufClosed,    \* close(reader.buf) was executed
    hubStop,      \* close(hub.stop) was executed (Receiver.Stop)
    hubDone,      \* hub.run has returned
    pub,          \* history: the messages hub.run received on hub.incoming
    \* ---- Receiver.run and the connection ----
    rpc,          \* Receiver.run: "read", "publish", "done"
    msgs,         \* Receiver.run: the messages of the frame not yet published
    clientStop,   \* the done channel (Client.stop) was closed by Receiver.run
    connCloses,   \* number of conn.Close() calls
    readErr,      \* Receiver.run: the error of the last read that failed,
                  \* "nil" before: "io" (the connection), "decode" (the frame)
    srvNext,      \* server: number of messages it sent unasked; the mock
                  \* server of receiver_test.go numbers its messages by it
    \* ---- goroutines using the Receiver ----
    pc,           \* position of each goroutine
    seen,         \* history: how many messages of pub lie behind each Reader:
                  \* published before it was made, or received by its owner
    \* ---- Client (client.go) ----
    value,        \* IDCounter.value
    ctxDone,      \* the context given to NewClient is done
    closeOnce,    \* Client.once: "new", "running" (inside Do), "done"
    td,           \* history: how often each statement of Close's body ran
    closedBy,     \* history: the goroutines that returned from Close
    id,           \* sendMessage: the ID of the caller's request
    hit,          \* history: the hub took a message carrying the caller's ID
                  \* from hub.incoming while the call was outstanding
    result,       \* receiveMessage: what the caller's call returned
    srvReqs,      \* server: the requests it received and has not answered
    pings,        \* history: number of pings pingLoop started
    \* ---- the device table (client.go, device.go) ----
    devices,      \* Client.devices: for each DeviceIndex the number of the
                  \* handle (*Device) the table holds, 0: no entry
    gen,          \* history: how many handles were made for each DeviceIndex
    closes,       \* history: for each handle <<index, number>> how often
                  \* close(dev.done) was executed on it
    srvDev,       \* server: the indexes it reported as listed or added and
                  \* has not reported removed since
    scanCtx,      \* the context given to WaitOnScanning is done
    \* ---- a device command (device.go) ----
    call,         \* the command in progress: its name, its arguments, the
                  \* DeviceMessages of the handle and the counter before it
    reply,        \* sendMessage: the message receiveMessage returned
    ret,          \* the error the last command returned
    \* ---- the handshake (client.go) ----
    interval      \* the period initSession gave pingLoop, in milliseconds;
                  \* 0 while pingLoop was not started by it

senderVars == <<out, outClosed, senderStop, senderOnce, wlpc, v, writes,
                closeMsg, accepted, sendCalls, lateSends, lastSend>>

hubVars == <<readers, buf, bufClosed, hubStop, hubDone, pub>>

recvVars == <<rpc, msgs, clientStop, connCloses, readErr, srvNext>>

procVars == <<pc, seen>>

devVars == <<devices, gen, closes, srvDev, scanCtx>>

cmdVars == <<call, reply, ret, interval>>

clientVars == <<value, ctxDone, closeOnce, td, closedBy, id, hit, result,
                srvReqs, pings, devices, gen, closes, srvDev, scanCtx,
                call, reply, ret, interval>>

vars == <<out, outClosed, senderStop, senderOnce, wlpc, v, writes,
          closeMsg, accepted, sendCalls, lateSends, lastSend, panicked,
          readers, buf, bufClosed, hubStop, hubDone, pub,
          rpc, msgs, clientStop, connCloses, readErr, srvNext, pc, seen,
          value, ctxDone, closeOnce, td, closedBy, id, hit, result,
          srvReqs, pings, devices, gen, closes, srvDev, scanCtx,
          call, reply, ret, interval>>

Range(s) == {s[i] : i \in DOMAIN s}

NoSend == [id |-> 0, res |-> "none", once |-> "new", len |-> 0]

(***************************************************************************)
(* Sender                                                                  *)
(***************************************************************************)
\* NewSender: an empty queue of capacity bufferSize, writeLoop started.
SenderInit ==
    /\ out = <<>>
    /\ outClosed = FALSE
    /\ senderStop = FALSE
    /\ senderOnce = "new"
    /\ wlpc = "range"
    /\ v = 0
    /\ writes = <<>>
    /\ closeMsg = FALSE
    /\ accepted = <<>>
    /\ sendCalls = 0
    /\ lateSends = 0
    /\ lastSend = NoSend

\* The record kept of a Send call: the message, the result, and the state of
\* Sender.once and the queue length when the call was made.
SendRecord(m, res) ==
    [id |-> m, res |-> res, once |-> senderOnce, len |-> Len(out)]

\* Mutant of Send: the queue-full test is dropped, the message is discarded
\* and nil returned.
SendDropsWhenFull(m) ==
    /\ ~panicked
    /\ sendCalls' = sendCalls + 1
    /\ lateSends' = IF senderStop THEN lateSends + 1 ELSE lateSends
    /\ \/ /\ senderStop
          /\ lastSend' = SendRecord(m, "stopped")
          /\ UNCHANGED <<out, accepted, panicked>>
       \/ /\ outClosed
          /\ lastSend' = SendRecord(m, "panic")
          /\ panicked' = TRUE
          /\ UNCHANGED <<out, accepted>>
       \/ /\ ~outClosed
          /\ Len(out) < bufferSize
          /\ out' = Append(out, m)
          /\ accepted' = Append(accepted, m)
          /\ lastSend' = SendRecord(m, "nil")
          /\ UNCHANGED panicked
       \/ /\ ~senderStop
          /\ ~outClosed
          /\ Len(out) >= bufferSize
          /\ accepted' = Append(accepted, m)
          /\ lastSend' = SendRecord(m, "nil")
          /\ UNCHANGED <<out, panicked>>

\* Sender.Send: select { <-b.stop: "stopped"; b.out <- m: nil;
\* default: "write buffer full" }.  The send case is ready when the queue has
\* room, and also when b.out is closed, where taking it panics.
Send(m) ==
    /\ ~panicked
    /\ sendCalls' = sendCalls + 1
    /\ lateSends' = IF senderStop THEN lateSends + 1 ELSE lateSends
    /\ \/ /\ senderStop
          /\ lastSend' = SendRecord(m, "stopped")
          /\ UNCHANGED <<out, accepted, panicked>>
       \/ /\ outClosed
          /\ lastSend' = SendRecord(m, "panic")
          /\ panicked' = TRUE
          /\ UNCHANGED <<out, accepted>>
       \/ /\ ~outClosed
          /\ Len(out) < bufferSize
          /\ out' = Append(out, m)
          /\ accepted' = Append(accepted, m)
          /\ lastSend' = SendRecord(m, "nil")
          /\ UNCHANGED panicked
       \/ /\ ~senderStop
          /\ ~outClosed
          /\ Len(out) >= bufferSize
          /\ lastSend' = SendRecord(m, "full")
          /\ UNCHANGED <<out, accepted, panicked>>

\* Sender.Stop, first statement of the once.Do body: close(b.stop).
StopCloseStop ==
    /\ ~panicked
    /\ senderOnce = "new"
    /\ senderOnce' = "running"
    /\ senderStop' = TRUE
    /\ UNCHANGED outClosed

\* Sender.Stop, second statement of the once.Do body: close(b.out).
StopCloseOut ==
    /\ ~panicked
    /\ senderOnce = "running"
    /\ senderOnce' = "done"
    /\ outClosed' = TRUE
    /\ UNCHANGED senderStop

\* Mutant of WriteLoopRange: the loop ends as soon as b.out is closed, with
\* messages still queued.
WriteLoopRangeNoDrain ==
    /\ ~panicked
    /\ wlpc = "range"
    /\ \/ /\ out # <<>>
          /\ ~outClosed
          /\ v' = Head(out)
          /\ out' = Tail(out)
          /\ wlpc' = "write"
       \/ /\ outClosed
          /\ wlpc' = "close"
          /\ UNCHANGED <<out, v>>

\* Mutant of WriteLoopRange: the newest queued message is taken first.
WriteLoopRangeLifo ==
    /\ ~panicked
    /\ wlpc = "range"
    /\ \/ /\ out # <<>>
          /\ v' = out[Len(out)]
          /\ out' = SubSeq(out, 1, Len(out) - 1)
          /\ wlpc' = "write"
       \/ /\ out = <<>>
          /\ outClosed
          /\ wlpc' = "close"
          /\ UNCHANGED <<out, v>>

\* writeLoop, "for v := range buf": take the oldest queued message; the loop
\* ends when the channel is closed and drained.
WriteLoopRange ==
    /\ ~panicked
    /\ wlpc = "range"
    /\ \/ /\ out # <<>>
          /\ v' = Head(out)
          /\ out' = Tail(out)
          /\ wlpc' = "write"
       \/ /\ out = <<>>
          /\ outClosed
          /\ wlpc' = "close"
          /\ UNCHANGED <<out, v>>

\* The results of conn.WriteJSON the loop distinguishes.
WriteErrors == {"nil", "ErrCloseSent", "other"}

\* writeLoop, the loop body: conn.WriteJSON(OutgoingMessages{v}); return on
\* websocket.ErrCloseSent, log any other error and go on.
WriteLoopWrite(err) ==
    /\ ~panicked
    /\ wlpc = "write"
    /\ writes' = Append(writes, v)
    /\ v' = 0
    /\ wlpc' = IF err = "ErrCloseSent" THEN "done" ELSE "range"
    /\ UNCHANGED closeMsg

\* writeLoop after the loop: conn.WriteMessage(websocket.CloseMessage, ...).
WriteLoopClose ==
    /\ ~panicked
    /\ wlpc = "close"
    /\ closeMsg' = TRUE
    /\ wlpc' = "done"
    /\ UNCHANGED <<writes, v>>

(***************************************************************************)
(* Messages, the hub and the Receiver (message/receiver.go)                *)
(***************************************************************************)
\* The goroutines that own a Reader: the subscribers of receiver_test.go,
\* a caller of Client.sendMessage (pingLoop), Client.eventLoop,
\* initDeviceList, a caller of WaitOnScanning and the caller of a device
\* command.
Readers == {"s1", "s2", "ping", "events", "init", "scan", "cmd"}

\* An IncomingMessage with one variant populated.
Msg(kind, n) == [kind |-> kind, id |-> n]

\* A DeviceAdded or DeviceRemoved message for the device with DeviceIndex i;
\* the server sends them unasked, with ID 0.
DevMsg(kind, i) == [kind |-> kind, id |-> 0, dev |-> i]

\* The variants of an IncomingMessage.
Kinds == {"Ok", "Error", "Test", "Log", "ServerInfo", "ScanningFinished",
          "DeviceList", "DeviceAdded", "DeviceRemoved"}

\* Mutant of MessageID: the Id of the element is returned whatever it is.
MessageIDOfAnyElement(m) == m.id

\* IncomingMessage.Message(), the id it returns: the ID of the variant that
\* is populated, and 0 when none is (the switch falls through to
\* "return 0, nil").
MessageID(m) == IF m.kind \in Kinds THEN m.id ELSE 0

\* newHub and NewReceiver: an empty registry, hub.run and Receiver.run
\* started.  The queue of a Reader that was not made yet is empty and open.
HubInit ==
    /\ readers = {}
    /\ buf = [r \in Readers |-> <<>>]
    /\ bufClosed = [r \in Readers |-> FALSE]
    /\ hubStop = FALSE
    /\ hubDone = FALSE
    /\ pub = <<>>

ReceiverInit ==
    /\ rpc = "read"
    /\ msgs = <<>>
    /\ clientStop = FALSE
    /\ connCloses = 0
    /\ readErr = "nil"

\* Mutant of HubIncomingCase: one of the registered readers is skipped.
HubIncomingSkipsOne(msg) ==
    /\ pub' = Append(pub, msg)
    /\ LET skip == IF readers = {} THEN {} ELSE {CHOOSE r \in readers : TRUE}
       IN  /\ buf' = [r \in Readers |->
                        IF r \in readers \ skip /\ Len(buf[r]) < readerBuf
                        THEN Append(buf[r], msg) ELSE buf[r]]
           /\ bufClosed' = [r \in Readers |->
                        bufClosed[r] \/ (r \in readers /\ Len(buf[r]) >= readerBuf)]
           /\ readers' = {r \in readers : Len(buf[r]) < readerBuf}
           /\ UNCHANGED panicked

\* Mutant of HubIncomingCase: a plain send instead of the select with
\* default, so the case blocks while a registered reader's queue is full.
HubIncomingBlocks(msg) ==
    /\ \A r \in readers : Len(buf[r]) < readerBuf
    /\ pub' = Append(pub, msg)
    /\ buf' = [r \in Readers |->
                 IF r \in readers THEN Append(buf[r], msg) ELSE buf[r]]
    /\ UNCHANGED <<readers, bufClosed, panicked>>

\* Mutant of HubIncomingCase: a reader whose queue is full has the queue
\* closed but stays in the registry.
HubIncomingCaseKeepsEvicted(msg) ==
    /\ pub' = Append(pub, msg)
    /\ IF \E r \in readers : bufClosed[r]
       THEN /\ panicked' = TRUE
            /\ UNCHANGED <<readers, buf, bufClosed>>
       ELSE /\ buf' = [r \in Readers |->
                        IF r \in readers /\ Len(buf[r]) < readerBuf
                        THEN Append(buf[r], msg) ELSE buf[r]]
            /\ bufClosed' = [r \in Readers |->
                        bufClosed[r] \/ (r \in readers /\ Len(buf[r]) >= readerBuf)]
            /\ UNCHANGED <<readers, panicked>>

\* hub.run, case msg := <-h.incoming: a non-blocking send to every registered
\* reader; a reader whose queue is full is closed and removed.  A send on a
\* closed queue panics.
HubIncomingCase(msg) ==
    /\ pub' = Append(pub, msg)
    /\ IF \E r \in readers : bufClosed[r]
       THEN /\ panicked' = TRUE
            /\ UNCHANGED <<readers, buf, bufClosed>>
       ELSE /\ buf' = [r \in Readers |->
                        IF r \in readers /\ Len(buf[r]) < readerBuf
                        THEN Append(buf[r], msg) ELSE buf[r]]
            /\ bufClosed' = [r \in Readers |->
                        bufClosed[r] \/ (r \in readers /\ Len(buf[r]) >= readerBuf)]
            /\ readers' = {r \in readers : Len(buf[r]) < readerBuf}
            /\ UNCHANGED panicked

\* hub.run, case reader := <-h.subscribe.
HubSubscribeCase(r) ==
    readers' = readers \cup {r}

\* Mutant of HubUnsubscribeCase: the queue is closed but the entry stays.
HubUnsubscribeKeepsEntry(r) ==
    /\ bufClosed' = [bufClosed EXCEPT ![r] = TRUE]
    /\ UNCHANGED <<readers, panicked>>

\* hub.run, case reader := <-h.unsubscribe: close and remove the reader if it
\* is registered.  Closing a closed queue panics.
HubUnsubscribeCase(r) ==
    IF r \in readers
    THEN IF bufClosed[r]
         THEN /\ panicked' = TRUE
              /\ UNCHANGED <<readers, bufClosed>>
         ELSE /\ bufClosed' = [bufClosed EXCEPT ![r] = TRUE]
              /\ readers' = readers \ {r}
              /\ UNCHANGED panicked
    ELSE UNCHANGED <<readers, bufClosed, panicked>>

\* Mutant of HubStopCase: hub.run returns and leaves the readers as they are.
HubStopCaseLeavesReaders ==
    /\ ~panicked
    /\ hubStop
    /\ ~hubDone
    /\ hubDone' = TRUE
    /\ UNCHANGED <<readers, bufClosed, panicked, buf, hubStop, pub>>

\* hub.run, case <-h.stop: close and remove every reader, then return.
HubStopCase ==
    /\ ~panicked
    /\ hubStop
    /\ ~hubDone
    /\ IF \E r \in readers : bufClosed[r]
       THEN /\ panicked' = TRUE
            /\ UNCHANGED <<readers, bufClosed, hubDone>>
       ELSE /\ bufClosed' = [r \in Readers |-> bufClosed[r] \/ r \in readers]
            /\ readers' = {}
            /\ hubDone' = TRUE
            /\ UNCHANGED panicked
    /\ UNCHANGED <<buf, hubStop, pub>>

\* Receiver.Subscribe: make a Reader, then select { hub.subscribe <- r: the
\* reader is registered (ok); <-hub.stop: "stopped" }.  hub.run takes the
\* reader only while it is in its loop.
Subscribe(r, ok) ==
    /\ ~panicked
    /\ buf' = [buf EXCEPT ![r] = <<>>]
    /\ bufClosed' = [bufClosed EXCEPT ![r] = FALSE]
    /\ seen' = [seen EXCEPT ![r] = Len(pub)]
    /\ IF ok
       THEN /\ ~hubDone
            /\ HubSubscribeCase(r)
       ELSE /\ hubStop
            /\ UNCHANGED readers
    /\ UNCHANGED <<hubStop, hubDone, pub, panicked>>

\* Mutant of Unsubscribe: the select has no case <-hub.stop.
UnsubscribeNoStopCase(r) ==
    /\ ~panicked
    /\ ~hubDone
    /\ HubUnsubscribeCase(r)
    /\ UNCHANGED <<hubStop, hubDone, pub>>

\* Receiver.Unsubscribe: select { hub.unsubscribe <- r; <-hub.stop }.
Unsubscribe(r) ==
    /\ ~panicked
    /\ \/ /\ ~hubDone
          /\ HubUnsubscribeCase(r)
       \/ /\ hubStop
          /\ UNCHANGED <<readers, bufClosed, panicked>>
    /\ UNCHANGED <<hubStop, hubDone, pub>>

\* The caller of Unsubscribe returns and drops its Reader: a Reader the hub
\* holds no more is garbage, its queue is gone.
DropReader(r) ==
    /\ buf' = [buf EXCEPT ![r] = IF r \in readers' THEN @ ELSE <<>>]
    /\ seen' = [seen EXCEPT ![r] = IF r \in readers' THEN @ ELSE 0]

\* Receiver.Stop: once.Do(close(hub.stop)).
ReceiverStop ==
    /\ ~panicked
    /\ hubStop' = TRUE
    /\ UNCHANGED <<readers, buf, bufClosed, hubDone, pub>>

\* A receive from r.Incoming() that yields a message.
Recv(r) ==
    /\ ~panicked
    /\ buf[r] # <<>>
    /\ seen' = [seen EXCEPT ![r] = @ + 1]
    /\ buf' = [buf EXCEPT ![r] = Tail(@)]
    /\ UNCHANGED <<readers, bufClosed, hubStop, hubDone, pub>>

\* Receiver.run: conn.ReadJSON(&msgs) returned the messages of one frame.
RunRead(frame) ==
    /\ ~panicked
    /\ rpc = "read"
    /\ msgs' = frame
    /\ rpc' = IF frame = <<>> THEN "read" ELSE "publish"
    /\ UNCHANGED <<clientStop, connCloses, readErr>>

\* The errors of conn.ReadJSON: NextReader failed (the connection), or the
\* frame was read and json's Decode failed on it.
ReadErrors == {"io", "decode"}

\* Receiver.run: err := rc.conn.ReadJSON(&msgs); if err != nil {
\* rc.conn.Close(); close(done); return }, whichever error it is.
RunReadErr(err) ==
    /\ ~panicked
    /\ rpc = "read"
    /\ readErr' = err
    /\ connCloses' = connCloses + 1
    /\ clientStop' = TRUE
    /\ rpc' = "done"
    /\ UNCHANGED msgs

\* Mutant of RunPublish: the messages of a frame are published last first.
RunPublishLastFirst ==
    /\ ~panicked
    /\ rpc = "publish"
    /\ \/ /\ ~hubDone
          /\ HubIncomingCase(msgs[Len(msgs)])
       \/ /\ hubStop
          /\ UNCHANGED <<readers, buf, bufClosed, pub, panicked>>
    /\ msgs' = SubSeq(msgs, 1, Len(msgs) - 1)
    /\ rpc' = IF Len(msgs) = 1 THEN "read" ELSE "publish"
    /\ UNCHANGED <<hubStop, hubDone, clientStop, connCloses, readErr>>

\* Receiver.run, "for _, msg := range msgs": select { hub.incoming <- msg;
\* <-hub.stop }: the next message of the frame is handed to hub.run, or
\* dropped once hub.stop is closed.
RunPublish ==
    /\ ~panicked
    /\ rpc = "publish"
    /\ \/ /\ ~hubDone
          /\ HubIncomingCase(Head(msgs))
       \/ /\ hubStop
          /\ UNCHANGED <<readers, buf, bufClosed, pub, panicked>>
    /\ msgs' = Tail(msgs)
    /\ rpc' = IF Tail(msgs) = <<>> THEN "read" ELSE "publish"
    /\ UNCHANGED <<hubStop, hubDone, clientStop, connCloses, readErr>>

(***************************************************************************)
(* Client (client.go).  A goroutine p is at pc[p]; the positions inside    *)
(* Close are "close" (at once.Do), "sstop", "sstop2" (inside               *)
(* c.sender.Stop()), "rstop", "cwait" and "cconn"; those inside            *)
(* sendMessage are "send", "subscribe", "wait", "unsub" and "ret".         *)
(***************************************************************************)
\* Mutant of Generate: the counter wraps to 0 and 0 is returned.
GenerateNoSkip(val) == (val + 1) % IDModulus

\* IDCounter.Generate: value++, and once more when that gave 0.
Generate(val) ==
    IF (val + 1) % IDModulus = 0 THEN 1 ELSE (val + 1) % IDModulus

\* Where a goroutine goes on when Close returns: pingLoop to its select, the
\* others are done.
AfterClose(p) == IF p = "ping" THEN "idle" ELSE "done"

\* The call of p is outstanding: sendMessage has sent its request and
\* receiveMessage has not yet chosen what it returns.
Outstanding(p) == pc[p] \in {"subscribe", "wait"}

\* Mutant of CloseEnter: the body runs on every call.
CloseEnterNoOnce(p) ==
    /\ pc[p] = "close"
    /\ closeOnce' = "running"
    /\ td' = [td EXCEPT !["enter"] = @ + 1]
    /\ pc' = [pc EXCEPT ![p] = "sstop"]
    /\ UNCHANGED closedBy

\* Client.Close, c.once.Do(...): the first caller runs the body, a caller
\* that comes while it runs waits for its end, a later one returns at once.
CloseEnter(p) ==
    /\ pc[p] = "close"
    /\ \/ /\ closeOnce = "new"
          /\ closeOnce' = "running"
          /\ td' = [td EXCEPT !["enter"] = @ + 1]
          /\ pc' = [pc EXCEPT ![p] = "sstop"]
          /\ UNCHANGED closedBy
       \/ /\ closeOnce = "done"
          /\ closedBy' = closedBy \cup {p}
          /\ pc' = [pc EXCEPT ![p] = AfterClose(p)]
          /\ UNCHANGED <<closeOnce, td>>

\* Close's body: c.sender.Stop(), up to close(b.stop); a Sender stopped
\* before is left alone.
CloseSenderStop(p) ==
    /\ pc[p] = "sstop"
    /\ td' = [td EXCEPT !["sender"] = @ + 1]
    /\ \/ /\ StopCloseStop
          /\ pc' = [pc EXCEPT ![p] = "sstop2"]
       \/ /\ senderOnce = "done"
          /\ pc' = [pc EXCEPT ![p] = "rstop"]
          /\ UNCHANGED <<senderOnce, senderStop, outClosed>>

\* Close's body: the rest of c.sender.Stop(), close(b.out).
CloseSenderStop2(p) ==
    /\ pc[p] = "sstop2"
    /\ StopCloseOut
    /\ pc' = [pc EXCEPT ![p] = "rstop"]

\* Close's body: c.receiver.Stop().
CloseReceiverStop(p) ==
    /\ pc[p] = "rstop"
    /\ ReceiverStop
    /\ td' = [td EXCEPT !["receiver"] = @ + 1]
    /\ pc' = [pc EXCEPT ![p] = "cwait"]

\* Close's body: <-c.stop, which Receiver.run closes when it ends.
CloseWait(p) ==
    /\ pc[p] = "cwait"
    /\ clientStop
    /\ td' = [td EXCEPT !["wait"] = @ + 1]
    /\ pc' = [pc EXCEPT ![p] = "cconn"]

\* Close's body: c.conn.Close(); the body ends and Close returns.
CloseConn(p) ==
    /\ pc[p] = "cconn"
    /\ connCloses' = connCloses + 1
    /\ td' = [td EXCEPT !["conn"] = @ + 1]
    /\ closeOnce' = "done"
    /\ closedBy' = closedBy \cup {p}
    /\ pc' = [pc EXCEPT ![p] = AfterClose(p)]

\* The goroutine NewClient starts: select { <-ctx.Done(); <-c.stop }, then
\* c.Close().
WatcherSelect(p) ==
    /\ pc[p] = "select"
    /\ ctxDone \/ clientStop
    /\ pc' = [pc EXCEPT ![p] = "close"]

\* pingLoop's select: <-c.ctx.Done() and <-c.stop return.
PingLoopDone(p) ==
    /\ pc[p] = "idle"
    /\ ctxDone \/ clientStop
    /\ pc' = [pc EXCEPT ![p] = "done"]
    /\ UNCHANGED <<value, id, hit, result, pings>>

\* pingLoop's select: <-time.After(d): id := c.counter.Generate() and the
\* call of sendMessage(id, Ping{id}).
PingLoopTimer(p) ==
    /\ pc[p] = "idle"
    /\ value' = Generate(value)
    /\ id' = [id EXCEPT ![p] = value']
    /\ hit' = [hit EXCEPT ![p] = FALSE]
    /\ result' = [result EXCEPT ![p] = "none"]
    /\ pings' = pings + 1
    /\ pc' = [pc EXCEPT ![p] = "send"]

\* sendMessage: if err := c.sender.Send(m); err != nil { return err }; the
\* caller, pingLoop, calls Close on an error.
SendMessageSend(p) ==
    /\ pc[p] = "send"
    /\ Send(id[p])
    /\ IF lastSend'.res = "nil"
       THEN /\ pc' = [pc EXCEPT ![p] = "subscribe"]
            /\ UNCHANGED result
       ELSE /\ pc' = [pc EXCEPT ![p] = "close"]
            /\ result' = [result EXCEPT ![p] = lastSend'.res]

\* receiveMessage: r := c.receiver.Subscribe().  Without a Reader (the
\* Receiver is stopped) there is nothing to wait on, the call fails.  A
\* caller whose last Reader the hub still holds gets no new one registered.
ReceiveSubscribe(p) ==
    /\ pc[p] = "subscribe"
    /\ \E ok \in BOOLEAN :
          /\ ok => p \notin readers
          /\ Subscribe(p, ok)
          /\ IF ok
             THEN /\ pc' = [pc EXCEPT ![p] = "wait"]
                  /\ UNCHANGED result
             ELSE /\ pc' = [pc EXCEPT ![p] = "ret"]
                  /\ result' = [result EXCEPT ![p] = "stopped"]

\* receiveMessage's select loop: a message with the caller's ID is returned,
\* any other is skipped; a closed queue gives "reader stopped"; ctx.Done()
\* gives ctx.Err(): the client's context is done, or the defaultTimeout of
\* the call ran out, which it is taken to do only while nothing is queued.
ReceiveWait(p) ==
    /\ pc[p] = "wait"
    /\ \/ /\ Recv(p)
          /\ IF MessageID(Head(buf[p])) = id[p]
             THEN /\ result' = [result EXCEPT ![p] = Head(buf[p]).kind]
                  /\ pc' = [pc EXCEPT ![p] = "unsub"]
             ELSE UNCHANGED <<result, pc>>
       \/ /\ buf[p] = <<>>
          /\ bufClosed[p]
          /\ result' = [result EXCEPT ![p] = "reader stopped"]
          /\ pc' = [pc EXCEPT ![p] = "unsub"]
          /\ UNCHANGED <<hubVars, seen>>
       \/ /\ ctxDone
          /\ result' = [result EXCEPT ![p] = "canceled"]
          /\ pc' = [pc EXCEPT ![p] = "unsub"]
          /\ UNCHANGED <<hubVars, seen>>
       \/ /\ buf[p] = <<>>
          /\ ~bufClosed[p]
          /\ result' = [result EXCEPT ![p] = "timeout"]
          /\ pc' = [pc EXCEPT ![p] = "unsub"]
          /\ UNCHANGED <<hubVars, seen>>

\* receiveMessage: defer c.receiver.Unsubscribe(r), and the return.
ReceiveUnsubscribe(p) ==
    /\ pc[p] = "unsub"
    /\ Unsubscribe(p)
    /\ DropReader(p)
    /\ pc' = [pc EXCEPT ![p] = "ret"]

\* sendMessage after receiveMessage: an error, a reply that is an Error and
\* a reply that is no Ok make it fail, and pingLoop then calls Close.
SendMessageReturn(p) ==
    /\ pc[p] = "ret"
    /\ pc' = [pc EXCEPT ![p] = IF result[p] = "Ok" THEN "idle" ELSE "close"]
    /\ id' = [id EXCEPT ![p] = 0]
    /\ hit' = [hit EXCEPT ![p] = FALSE]
    /\ result' = [result EXCEPT ![p] = "none"]

\* The DeviceIndex values of the devices.
DevIdx == {0, 1}

\* The devices of the DeviceList reply.
Snapshot == {0, 1}

\* The handle the table holds for index i.
Handle(i) == <<i, devices[i]>>

\* make(map[uint32]*Device): an empty table, no handle made.
DevicesInit ==
    /\ devices = [i \in DevIdx |-> 0]
    /\ gen = [i \in DevIdx |-> 0]
    /\ closes = [h \in {} |-> 0]

\* addDevice: c.devices[d.DeviceIndex] = &Device{..., done: make(chan
\* struct{})}: a new handle takes the entry, whatever it held.
addDevice(i) ==
    /\ gen' = [gen EXCEPT ![i] = @ + 1]
    /\ devices' = [devices EXCEPT ![i] = gen[i] + 1]
    /\ closes' = closes @@ (<<i, gen[i] + 1>> :> 0)

\* Mutant of removeDevice: the entry is deleted, dev.done is not closed.
removeDeviceNoSignal(i) ==
    IF devices[i] = 0
    THEN /\ panicked' = TRUE
         /\ UNCHANGED <<devices, gen, closes>>
    ELSE /\ devices' = [devices EXCEPT ![i] = 0]
         /\ UNCHANGED <<gen, closes, panicked>>

\* Mutant of removeDevice: dev.done is closed, the entry stays.
removeDeviceKeepsEntry(i) ==
    IF devices[i] = 0
    THEN /\ panicked' = TRUE
         /\ UNCHANGED <<devices, gen, closes>>
    ELSE /\ closes' = [closes EXCEPT ![Handle(i)] = @ + 1]
         /\ panicked' = (closes[Handle(i)] > 0)
         /\ UNCHANGED <<devices, gen>>

\* removeDevice: the log line reads c.devices[d.DeviceIndex].device, a nil
\* pointer when the table has no entry: panic.  Else close(dev.done), which
\* panics on a closed channel, and delete(c.devices, d.DeviceIndex).
removeDevice(i) ==
    IF devices[i] = 0
    THEN /\ panicked' = TRUE
         /\ UNCHANGED <<devices, gen, closes>>
    ELSE /\ closes' = [closes EXCEPT ![Handle(i)] = @ + 1]
         /\ IF closes[Handle(i)] > 0
            THEN /\ panicked' = TRUE
                 /\ UNCHANGED devices
            ELSE /\ devices' = [devices EXCEPT ![i] = 0]
                 /\ UNCHANGED panicked
         /\ UNCHANGED gen

\* eventLoop: for m := range in.Incoming(): addDevice for a DeviceAdded,
\* removeDevice for a DeviceRemoved, nothing for any other message.
EventLoop(p) ==
    /\ pc[p] = "recv"
    /\ \/ /\ Recv(p)
          /\ LET m == Head(buf[p])
             IN  CASE m.kind = "DeviceAdded" ->
                        /\ addDevice(m.dev)
                        /\ UNCHANGED panicked
                   [] m.kind = "DeviceRemoved" ->
                        removeDevice(m.dev)
                   [] OTHER ->
                        UNCHANGED <<devices, gen, closes, panicked>>
          /\ UNCHANGED pc
       \/ /\ buf[p] = <<>>
          /\ bufClosed[p]
          /\ pc' = [pc EXCEPT ![p] = "done"]
          /\ UNCHANGED <<hubVars, seen, devices, gen, closes, panicked>>

(***************************************************************************)
(* Device commands (device.go) and the result of sendMessage.  A float64   *)
(* is a record: nan says that it is NaN, val is its value in units of      *)
(* 1/SpeedScale otherwise.  The arguments of a call are kept in the same   *)
(* records, an int as its value with nan FALSE.  An error is a record of   *)
(* its kind and the text it carries.                                       *)
(***************************************************************************)
\* The message types of device.go's constants.
Commands == {"StopDeviceCmd", "RawCmd", "SingleMotorVibrateCmd", "KiirooCmd",
             "FleshlightLaunchFW12Cmd", "LovenseCmd"}

F(x) == [nan |-> FALSE, val |-> x]

NaN == [nan |-> TRUE, val |-> 0]

\* Go's < on float64: false whenever an operand is NaN.
FLess(a, b) == ~a.nan /\ ~b.nan /\ a.val < b.val

Err(e) == [err |-> e, text |-> ""]

\* An IncomingMessage with one variant populated; an Error carries its
\* ErrorMessage.
TextMsg(kind, n, t) == [kind |-> kind, id |-> n, text |-> t]

NoReply == TextMsg("none", 0, "")

\* An element of a frame that populates no variant of IncomingMessage (its
\* key is none the struct knows), with Id n inside.
UnknownMsg(n) == TextMsg("none", n, "")

NoCall ==
    [cmd |-> "none", msgs |-> {}, a |-> F(0), b |-> F(0), prev |-> 0,
     dev |-> 0, index |-> 0]

\* No device command was called yet.
CmdOff ==
    /\ call = NoCall
    /\ reply = NoReply
    /\ ret = Err("none")
    /\ interval = 0

\* Device.IsSupported: msgtype is one of the handle's DeviceMessages.
IsSupported(dms, msgtype) == msgtype \in dms

\* The tests a command makes before it takes an ID: IsSupported, then the
\* range of its arguments, the position before the speed.  "nil" when the
\* command goes on to Generate and sendMessage.
CmdCheck(c) ==
    IF ~IsSupported(c.msgs, c.cmd)
    THEN "unsupported command"
    ELSE CASE c.cmd = "SingleMotorVibrateCmd" ->
                 IF FLess(c.a, F(0)) \/ FLess(F(SpeedScale), c.a)
                 THEN "invalid speed" ELSE "nil"
           [] c.cmd = "KiirooCmd" ->
                 IF c.a.val < 0 \/ c.a.val > maxKiiroo
                 THEN "invalid command" ELSE "nil"
           [] c.cmd = "FleshlightLaunchFW12Cmd" ->
                 IF c.a.val < 0 \/ c.a.val > maxLaunch
                 THEN "invalid position"
                 ELSE IF c.b.val < 0 \/ c.b.val > maxLaunch
                      THEN "invalid speed" ELSE "nil"
           [] OTHER -> "nil"

\* The DeviceIndex field of the OutgoingMessage a command builds on the
\* handle c.dev: StopDeviceCmd sets DeviceIndex: d.device.DeviceIndex, the
\* other commands set the ID and their arguments and leave the field at its
\* zero value.
CmdDeviceIndex(c) == IF c.cmd = "StopDeviceCmd" THEN c.dev ELSE 0

\* A command method of Device called by goroutine p: the tests, then
\* id := d.client.counter.Generate() and the call of sendMessage with the
\* message built (call.index is its DeviceIndex).
DeviceCmd(p, c) ==
    /\ pc[p] = "idle"
    /\ call' = [c EXCEPT !.prev = value,
                         !.index = IF CmdCheck(c) # "nil" THEN 0
                                   ELSE CmdDeviceIndex(c)]
    /\ IF CmdCheck(c) # "nil"
       THEN /\ ret' = Err(CmdCheck(c))
            /\ UNCHANGED <<value, id, hit, result, pc>>
       ELSE /\ value' = Generate(value)
            /\ id' = [id EXCEPT ![p] = value']
            /\ hit' = [hit EXCEPT ![p] = FALSE]
            /\ result' = [result EXCEPT ![p] = "none"]
            /\ pc' = [pc EXCEPT ![p] = "send"]
            /\ UNCHANGED ret

\* Mutant of sendMessageResult: the test r.Ok == nil is dropped, every reply
\* that is not an Error counts as success.
sendMessageResultNoOkTest(res, r) ==
    IF res \notin Kinds
    THEN Err(res)
    ELSE IF r.kind = "Error"
         THEN [err |-> "server error", text |-> r.text]
         ELSE Err("nil")

\* sendMessage after receiveMessage: its error if it returned one (res is
\* not a message kind); "server error: " and the ErrorMessage if r.Error is
\* set; "did not receive ok" if r.Ok is not set; nil otherwise.
sendMessageResult(res, r) ==
    IF res \notin Kinds
    THEN Err(res)
    ELSE IF r.kind = "Error"
         THEN [err |-> "server error", text |-> r.text]
         ELSE IF r.kind # "Ok"
              THEN Err("did not receive ok")
              ELSE Err("nil")

\* sendMessage called by a device command, c.sender.Send(m): its error is
\* returned to the caller of the command.
CmdSendMessageSend(p) ==
    /\ pc[p] = "send"
    /\ Send(id[p])
    /\ IF lastSend'.res = "nil"
       THEN /\ pc' = [pc EXCEPT ![p] = "subscribe"]
            /\ UNCHANGED ret
       ELSE /\ pc' = [pc EXCEPT ![p] = "idle"]
            /\ ret' = Err(lastSend'.res)

\* receiveMessage's select loop in a device command; the message it returns
\* is kept for sendMessage.
CmdReceiveWait(p) ==
    /\ ReceiveWait(p)
    /\ reply' = IF result'[p] \in Kinds THEN Head(buf[p]) ELSE reply

\* sendMessage returns to the command, the command to its caller.
CmdSendMessageReturn(p) ==
    /\ pc[p] = "ret"
    /\ ret' = sendMessageResult(result[p], reply)
    /\ pc' = [pc EXCEPT ![p] = "idle"]

\* A ServerInfo message that advertises MaxPingTime mpt, in milliseconds.
ServerInfoMsg(n, mpt) ==
    [kind |-> "ServerInfo", id |-> n, text |-> "", MaxPingTime |-> mpt]

\* initSession: interval := 1 * time.Second; if si.MaxPingTime != 0 &&
\* si.MaxPingTime < 1000 { interval = (si.MaxPingTime/2) * time.Millisecond },
\* with the integer division of uint32.
PingInterval(mpt) == IF mpt # 0 /\ mpt < second THEN mpt \div 2 ELSE second

\* initSession after receiveMessage returned m without a ServerInfo: "no
\* serverinfo received", pingLoop is not started.
InitSessionNoInfo ==
    /\ pc["init"] = "info"
    /\ reply.kind # "ServerInfo"
    /\ ret' = Err("no serverinfo received")
    /\ pc' = [pc EXCEPT !["init"] = "failed"]
    /\ UNCHANGED interval

\* initSession after receiveMessage returned m with a ServerInfo: the
\* interval is computed, go c.pingLoop(interval), return nil.
InitSessionStart ==
    /\ pc["init"] = "info"
    /\ reply.kind = "ServerInfo"
    /\ interval' = PingInterval(reply.MaxPingTime)
    /\ ret' = Err("nil")
    /\ pc' = [pc EXCEPT !["init"] = "done", !["ping"] = "idle"]

(***************************************************************************)
(* SpecSender: a sender used by free producers, as in sender_test.go.      *)
(* Every Send call carries a fresh message, numbered by the call.          *)
(***************************************************************************)
ProducerSend ==
    /\ UNCHANGED <<hubVars, recvVars, procVars, clientVars>>
    /\ sendCalls < MaxSends
    /\ senderStop => lateSends < MaxLateSends
    /\ Send(sendCalls + 1)
    /\ UNCHANGED <<outClosed, senderStop, senderOnce, wlpc, v, writes, closeMsg>>

SenderStopA ==
    /\ UNCHANGED <<hubVars, recvVars, procVars, clientVars>>
    /\ StopCloseStop
    /\ UNCHANGED <<out, wlpc, v, writes, closeMsg, accepted, sendCalls,
                   lateSends, lastSend, panicked>>

SenderStopB ==
    /\ UNCHANGED <<hubVars, recvVars, procVars, clientVars>>
    /\ StopCloseOut
    /\ UNCHANGED <<out, wlpc, v, writes, closeMsg, accepted, sendCalls,
                   lateSends, lastSend, panicked>>

WorkerRange ==
    /\ UNCHANGED <<hubVars, recvVars, procVars, clientVars>>
    /\ out # <<>> => Len(writes) < MaxWrites
    /\ WriteLoopRange
    /\ UNCHANGED <<outClosed, senderStop, senderOnce, writes, closeMsg,
                   accepted, sendCalls, lateSends, lastSend, panicked>>

WorkerWrite ==
    /\ UNCHANGED <<hubVars, recvVars, procVars, clientVars>>
    /\ \E err \in WriteErrors : WriteLoopWrite(err)
    /\ UNCHANGED <<out, outClosed, senderStop, senderOnce, accepted,
                   sendCalls, lateSends, lastSend, panicked>>

WorkerClose ==
    /\ UNCHANGED <<hubVars, recvVars, procVars, clientVars>>
    /\ WriteLoopClose
    /\ UNCHANGED <<out, outClosed, senderStop, senderOnce, accepted,
                   sendCalls, lateSends, lastSend, panicked>>

\* The goroutines of SpecHub and their state before they start.
Subscribers == {"s1", "s2"}

ProcsOff ==
    /\ pc = [p \in Subscribers |-> "off"]
    /\ seen = [r \in Readers |-> 0]

\* The goroutines that call Client.sendMessage.
Callers == {"ping"}

\* The statements of the function Close passes to once.Do.
CloseSteps == {"enter", "sender", "receiver", "wait", "conn"}

\* No Client: SpecSender and SpecHub use the Sender and the Receiver alone.
ClientOff ==
    /\ value = 0
    /\ ctxDone = FALSE
    /\ closeOnce = "new"
    /\ td = [s \in CloseSteps |-> 0]
    /\ closedBy = {}
    /\ id = [p \in Callers |-> 0]
    /\ hit = [p \in Callers |-> FALSE]
    /\ result = [p \in Callers |-> "none"]
    /\ srvReqs = {}
    /\ pings = 0
    /\ DevicesInit
    /\ srvDev = {}
    /\ scanCtx = FALSE
    /\ CmdOff

InitSender ==
    /\ SenderInit
    /\ panicked = FALSE
    /\ HubInit
    /\ ReceiverInit
    /\ srvNext = 0
    /\ ProcsOff
    /\ ClientOff

NextSender ==
    \/ ProducerSend
    \/ SenderStopA
    \/ SenderStopB
    \/ WorkerRange
    \/ WorkerWrite
    \/ WorkerClose

SpecSender == InitSender /\ [][NextSender]_vars

(***************************************************************************)
(* Claims about the Sender, checked under SpecSender.                      *)
(***************************************************************************)
\* The message writeLoop holds between taking it and writing it.
InHand == IF v = 0 THEN <<>> ELSE <<v>>

\* C6: after Sender.Stop has returned, every Send returns the "stopped"
\* error: it neither enqueues the message, nor reports a full queue, nor
\* panics on the closed outbound queue.
C6_SendAfterStopReturnsStopped ==
    lastSend.once = "done" => lastSend.res = "stopped"

\* C7: on a sender that is not stopped a Send returns nil exactly when it
\* appended the message to the queue and returns "write buffer full",
\* leaving the queue alone, exactly when the queue already holds bufferSize
\* messages, so that no call before the 257th can fail and the 257th does
\* fail when nothing was drained; a Send that returns an error never changes
\* the queue, and only messages whose Send returned nil reach WriteJSON.
C7_SendFailsFastNeverDrops ==
    /\ [](Range(writes) \cup Range(InHand) \cup Range(out) \subseteq Range(accepted))
    /\ [][sendCalls' # sendCalls =>
            /\ (lastSend'.res = "nil") <=> (out' = Append(out, lastSend'.id))
            /\ (lastSend'.res = "nil") <=> (accepted' = Append(accepted, lastSend'.id))
            /\ lastSend'.res # "nil" => out' = out /\ accepted' = accepted
            /\ ~senderStop =>
                 /\ lastSend'.res \in {"nil", "full"}
                 /\ (lastSend'.res = "full") <=> (Len(out) = bufferSize)
                 /\ lastSend'.res = "full" => sendCalls' > bufferSize
                 /\ (sendCalls = bufferSize /\ writes = <<>> /\ v = 0)
                        => lastSend'.res = "full"
       ]_vars

\* C7 witness: with nothing drained, the 257th Send was refused on a full
\* queue.
C7_Witness ==
    /\ lastSend.res = "full"
    /\ lastSend.id = bufferSize + 1
    /\ Len(out) = bufferSize
    /\ writes = <<>>
    /\ ~senderStop

C9_CloseFrameAfterDrain ==
    closeMsg =>
        /\ senderOnce = "done"
        /\ outClosed
        /\ out = <<>>
        /\ v = 0
        /\ wlpc = "done"
        /\ writes = accepted

\* C9 witness: three messages or more were written, Stop ran (a later Send
\* was refused as stopped) and the worker has sent the close frame.
C9_Witness ==
    /\ closeMsg
    /\ Len(writes) >= 3
    /\ lastSend.res = "stopped"

\* C25: when Sender.Stop has returned (both statements of its once.Do body
\* ran), the close frame has been sent, and if no Send came after Stop began
\* every accepted message has been written: none is queued or in the
\* worker's hand.
C25_StopReturnsAfterDrain ==
    senderOnce = "done" =>
        /\ closeMsg
        /\ (lateSends = 0 => (out = <<>> /\ v = 0 /\ writes = accepted))

(***************************************************************************)
(* SpecHub: a Receiver used as in receiver_test.go.  The mock server sends *)
(* Ok messages with IDs 0, 1, 2, ...; every subscriber subscribes, reads   *)
(* until the message with ID nMsg-1 and unsubscribes; Stop and a failure   *)
(* of the connection can come at any time.                                 *)
(***************************************************************************)
\* The frame of k messages the mock server sends next.
ServerFrame(k) == [i \in 1..k |-> Msg("Ok", srvNext + i - 1)]

\* The messages Receiver.run dropped on the closed hub.stop.
Dropped == srvNext - Len(pub) - Len(msgs)

HubRead ==
    /\ Dropped < MaxDropped
    /\ \E k \in 1..MaxFrame :
          /\ srvNext + k <= MaxPub
          /\ RunRead(ServerFrame(k))
          /\ srvNext' = srvNext + k
    /\ UNCHANGED <<readers, buf, bufClosed, hubStop, hubDone, pub, panicked>>
    /\ UNCHANGED <<senderVars, procVars, clientVars>>

\* A read fails because the connection failed or was closed.
HubReadErr ==
    /\ RunReadErr("io")
    /\ UNCHANGED <<hubVars, srvNext, panicked, senderVars, procVars,
                   clientVars>>

\* The peer sends a frame that is not the JSON of a message list.
HubReadMalformed ==
    /\ RunReadErr("decode")
    /\ UNCHANGED <<hubVars, srvNext, panicked, senderVars, procVars,
                   clientVars>>

HubPublish ==
    /\ RunPublish
    /\ UNCHANGED <<srvNext, senderVars, procVars, clientVars>>

HubStopped ==
    /\ HubStopCase
    /\ UNCHANGED <<recvVars, senderVars, procVars, clientVars>>

HubStopCall ==
    /\ ~hubStop
    /\ ReceiverStop
    /\ UNCHANGED <<recvVars, panicked, senderVars, procVars, clientVars>>

\* r, err := receiver.Subscribe(); if err != nil { return }
SubSubscribe(p) ==
    /\ pc[p] = "subscribe"
    /\ \E ok \in BOOLEAN :
          /\ Subscribe(p, ok)
          /\ pc' = [pc EXCEPT ![p] = IF ok THEN "recv" ELSE "done"]
    /\ UNCHANGED <<recvVars, senderVars, clientVars>>

\* m, ok := <-r.Incoming(): leave when the queue was closed, when the message
\* is no Ok and when its ID is nMsg-1 or more.
SubRecv(p) ==
    /\ pc[p] = "recv"
    /\ \/ /\ Recv(p)
          /\ LET m == Head(buf[p])
             IN  pc' = [pc EXCEPT ![p] =
                          IF m.kind # "Ok" \/ m.id >= nMsg - 1
                          THEN "unsub" ELSE "recv"]
       \/ /\ ~panicked
          /\ buf[p] = <<>>
          /\ bufClosed[p]
          /\ pc' = [pc EXCEPT ![p] = "unsub"]
          /\ UNCHANGED <<hubVars, seen>>
    /\ UNCHANGED <<panicked, recvVars, senderVars, clientVars>>

\* defer receiver.Unsubscribe(r)
SubUnsubscribe(p) ==
    /\ pc[p] = "unsub"
    /\ Unsubscribe(p)
    /\ DropReader(p)
    /\ pc' = [pc EXCEPT ![p] = "done"]
    /\ UNCHANGED <<recvVars, senderVars, clientVars>>

\* A further receiver.Unsubscribe(r) for the Reader of a subscriber that
\* has left; receiver_test.go has none, it is here to call Unsubscribe twice.
SubUnsubscribeAgain(p) ==
    /\ pc[p] = "done"
    /\ Unsubscribe(p)
    /\ DropReader(p)
    /\ pc' = [pc EXCEPT ![p] = "over"]
    /\ UNCHANGED <<recvVars, senderVars, clientVars>>

InitHub ==
    /\ SenderInit
    /\ panicked = FALSE
    /\ HubInit
    /\ ReceiverInit
    /\ srvNext = 0
    /\ pc = [p \in Subscribers |-> "subscribe"]
    /\ seen = [r \in Readers |-> 0]
    /\ ClientOff

NextHub ==
    \/ HubRead
    \/ HubReadErr
    \/ HubReadMalformed
    \/ HubPublish
    \/ HubStopped
    \/ HubStopCall
    \/ \E p \in Subscribers : SubSubscribe(p)
    \/ \E p \in Subscribers : SubRecv(p)
    \/ \E p \in Subscribers : SubUnsubscribe(p)
    \/ \E p \in Subscribers : SubUnsubscribeAgain(p)

SpecHub == InitHub /\ [][NextHub]_vars

\* hub.run is a goroutine of its own and its select picks among the ready
\* cases at random: once hub.stop is closed the stop case is taken in the
\* end.
SpecHubLive == SpecHub /\ WF_vars(HubStopped)

(***************************************************************************)
(* Claims about the hub, checked under SpecHub.                            *)
(***************************************************************************)
\* The message hub.run took from h.incoming in a step that extends pub.
Published == pub'[Len(pub')]

\* C3: when hub.run processes a published message, every reader registered
\* at that moment whose queue is not full gets exactly one copy appended to
\* its queue, and the queue of a reader that is not registered is left
\* alone.
C3_FanOutComplete ==
    [][pub' # pub =>
         \A r \in Readers :
            IF r \in readers /\ Len(buf[r]) < readerBuf
            THEN buf'[r] = Append(buf[r], Published)
            ELSE buf'[r] = buf[r]
      ]_vars

\* C3 witness: two readers are registered and the message published last is
\* the newest one in both queues, behind an older one.
C3_Witness ==
    /\ readers = {"s1", "s2"}
    /\ Len(pub) >= 2
    /\ \A r \in readers :
          /\ Len(buf[r]) >= 2
          /\ buf[r][Len(buf[r])] = pub[Len(pub)]

\* C4: a publish that finds the queue of a registered reader full closes the
\* queue and removes the reader, and leaves the queued messages alone; every
\* other registered reader stays registered, open, and gets the message; a
\* registered reader has been handed every message published since it
\* subscribed; and Receiver.run, holding a message for the hub, can always
\* take its step.
C4_SlowConsumerIsolated ==
    /\ [][pub' # pub =>
            \A r \in readers :
               IF Len(buf[r]) >= readerBuf
               THEN /\ r \notin readers'
                    /\ bufClosed'[r]
                    /\ buf'[r] = buf[r]
               ELSE /\ r \in readers'
                    /\ ~bufClosed'[r]
                    /\ buf'[r] = Append(buf[r], Published)
         ]_vars
    /\ [](\A r \in readers : seen[r] + Len(buf[r]) = Len(pub))
    /\ []((rpc = "publish" /\ ~panicked) => ENABLED HubPublish)

\* C4 witness: s1 never drained its queue and was evicted with readerBuf
\* messages in it, while s2 is registered and was handed the message that
\* evicted s1.
C4_Witness ==
    /\ "s1" \notin readers
    /\ bufClosed["s1"]
    /\ pc["s1"] = "recv"
    /\ seen["s1"] = 0
    /\ Len(buf["s1"]) = readerBuf
    /\ "s2" \in readers
    /\ Len(pub) > readerBuf
    /\ seen["s2"] + Len(buf["s2"]) = Len(pub)

\* C5: the hub takes the messages in the order Receiver.run read them, and
\* the queue of every reader holds, in that order and without a gap, the
\* messages published after the ones the reader has received.
C5_DeliveryInPublishOrder ==
    /\ \A i, j \in DOMAIN pub : i < j => pub[i].id < pub[j].id
    /\ \A r \in Readers :
          buf[r] = SubSeq(pub, seen[r] + 1, seen[r] + Len(buf[r]))

\* C5 witness: both readers hold two messages or more, and one of them has
\* received more than the other.
C5_Witness ==
    /\ Len(buf["s1"]) >= 2
    /\ Len(buf["s2"]) >= 2
    /\ seen["s1"] > seen["s2"]
    /\ seen["s2"] > 0


\* C14: after Receiver.Stop hub.run takes its stop case in the end; once it
\* has returned the registry is empty and the queue of every subscriber that
\* got registered, also by a Subscribe that raced with Stop, is closed.
C14_StopClosesEveryQueue ==
    /\ hubStop ~> hubDone
    /\ [](hubDone =>
            /\ readers = {}
            /\ \A p \in Subscribers :
                  pc[p] \in {"recv", "unsub"} => bufClosed[p])

\* C14 witness: hub.run has returned; s1 was registered before Stop and s2
\* by a Subscribe after it, both wait on their queues, which are closed, and
\* s1's still holds a message.
C14_Witness ==
    /\ hubDone
    /\ pc["s1"] = "recv"
    /\ pc["s2"] = "recv"
    /\ bufClosed["s1"]
    /\ bufClosed["s2"]
    /\ buf["s1"] # <<>>
    /\ seen["s2"] + Len(buf["s2"]) > seen["s1"] + Len(buf["s1"])

C28_MalformedFrameSkipped ==
    readErr = "decode" =>
        /\ rpc # "done"
        /\ connCloses = 0
        /\ ~clientStop

\* C37: in every state the queue of a registered reader is open; a queue is
\* closed in exactly the steps that take its reader out of the registry (the
\* eviction at a publish, Unsubscribe, Stop), so a reader that was registered
\* has an open queue exactly while it is registered; and hub.run neither
\* closes a closed queue nor sends on one (either would panic).
C37_RegistryMatchesOpenQueues ==
    [][/\ \A r \in readers' : ~bufClosed'[r]
       /\ \A r \in Readers :
             (r \in readers /\ r \notin readers')
                <=> (~bufClosed[r] /\ bufClosed'[r])
       /\ ~panicked'
      ]_vars

\* C37 witness: hub.run has returned after Stop; before, s1 was evicted at a
\* publish with a full queue and s2 had unsubscribed itself, and called
\* Unsubscribe once more.
C37_Witness ==
    /\ hubDone
    /\ readers = {}
    /\ bufClosed["s1"]
    /\ Len(buf["s1"]) = readerBuf
    /\ bufClosed["s2"]
    /\ pc["s2"] = "over"
    /\ ~panicked

(***************************************************************************)
(* SpecHubOld: the Receiver of unnamed/part_002 (lines 88-229), used as in *)
(* receiver_test.go.  Its Subscribe, Unsubscribe and Stop and the publish  *)
(* of Receiver.run are plain sends on unbuffered channels that only        *)
(* hub.run receives from, and hub.run returns in its stop case.            *)
(***************************************************************************)
\* Receiver.Subscribe: rc.hub.subscribe <- r.
OldSubscribe(r) ==
    /\ ~panicked
    /\ ~hubDone
    /\ buf' = [buf EXCEPT ![r] = <<>>]
    /\ bufClosed' = [bufClosed EXCEPT ![r] = FALSE]
    /\ seen' = [seen EXCEPT ![r] = Len(pub)]
    /\ HubSubscribeCase(r)
    /\ UNCHANGED <<hubStop, hubDone, pub, panicked>>

\* Receiver.Unsubscribe: rc.hub.unsubscribe <- r.
OldUnsubscribe(r) ==
    /\ ~panicked
    /\ ~hubDone
    /\ HubUnsubscribeCase(r)
    /\ UNCHANGED <<hubStop, hubDone, pub>>

\* Receiver.Stop: once.Do(rc.hub.stop <- true), and hub.run's case <-h.stop
\* that receives it: close and remove every reader, then return.
OldStop ==
    /\ ~panicked
    /\ ~hubStop
    /\ ~hubDone
    /\ hubStop' = TRUE
    /\ IF \E r \in readers : bufClosed[r]
       THEN /\ panicked' = TRUE
            /\ UNCHANGED <<readers, bufClosed, hubDone>>
       ELSE /\ bufClosed' = [r \in Readers |-> bufClosed[r] \/ r \in readers]
            /\ readers' = {}
            /\ hubDone' = TRUE
            /\ UNCHANGED panicked
    /\ UNCHANGED <<buf, pub>>

\* Receiver.run: NextReader failed: rc.conn.Close(); break.
OldRunReadErr ==
    /\ ~panicked
    /\ rpc = "read"
    /\ readErr' = "io"
    /\ connCloses' = connCloses + 1
    /\ rpc' = "done"
    /\ UNCHANGED <<msgs, clientStop>>

\* Receiver.run: the frame was read and Decode failed on it: the error is
\* logged and the loop continues with the next read.
OldRunReadMalformed ==
    /\ ~panicked
    /\ rpc = "read"
    /\ readErr' = "decode"
    /\ UNCHANGED <<rpc, msgs, clientStop, connCloses>>

\* Receiver.run, "for _, msg := range msgs": rc.hub.incoming <- msg.
OldRunPublish ==
    /\ ~panicked
    /\ rpc = "publish"
    /\ ~hubDone
    /\ HubIncomingCase(Head(msgs))
    /\ msgs' = Tail(msgs)
    /\ rpc' = IF Tail(msgs) = <<>> THEN "read" ELSE "publish"
    /\ UNCHANGED <<hubStop, hubDone, clientStop, connCloses, readErr>>

OldHubReadErr ==
    /\ OldRunReadErr
    /\ UNCHANGED <<hubVars, srvNext, panicked, senderVars, procVars,
                   clientVars>>

OldHubReadMalformed ==
    /\ OldRunReadMalformed
    /\ UNCHANGED <<hubVars, srvNext, panicked, senderVars, procVars,
                   clientVars>>

OldHubPublish ==
    /\ OldRunPublish
    /\ UNCHANGED <<srvNext, senderVars, procVars, clientVars>>

OldHubStopCall ==
    /\ OldStop
    /\ UNCHANGED <<recvVars, senderVars, procVars, clientVars>>

\* r := receiver.Subscribe()
OldSubSubscribe(p) ==
    /\ pc[p] = "subscribe"
    /\ OldSubscribe(p)
    /\ pc' = [pc EXCEPT ![p] = "recv"]
    /\ UNCHANGED <<recvVars, senderVars, clientVars>>

\* defer receiver.Unsubscribe(r)
OldSubUnsubscribe(p) ==
    /\ pc[p] = "unsub"
    /\ OldUnsubscribe(p)
    /\ DropReader(p)
    /\ pc' = [pc EXCEPT ![p] = "done"]
    /\ UNCHANGED <<recvVars, senderVars, clientVars>>

\* A further receiver.Unsubscribe(r) for the same Reader.
OldSubUnsubscribeAgain(p) ==
    /\ pc[p] = "done"
    /\ OldUnsubscribe(p)
    /\ DropReader(p)
    /\ pc' = [pc EXCEPT ![p] = "over"]
    /\ UNCHANGED <<recvVars, senderVars, clientVars>>

NextHubOld ==
    \/ HubRead
    \/ OldHubReadErr
    \/ OldHubReadMalformed
    \/ OldHubPublish
    \/ OldHubStopCall
    \/ \E p \in Subscribers : OldSubSubscribe(p)
    \/ \E p \in Subscribers : SubRecv(p)
    \/ \E p \in Subscribers : OldSubUnsubscribe(p)
    \/ \E p \in Subscribers : OldSubUnsubscribeAgain(p)

SpecHubOld == InitHub /\ [][NextHubOld]_vars

\* C16 as claimed, for the Unsubscribe of unnamed/part_002: a first or a
\* later call of Unsubscribe, before or after Stop or an eviction, can
\* always be completed: no call blocks for ever.
C16_UnsubscribeAlwaysReturns ==
    \A p \in Subscribers :
       /\ (pc[p] = "unsub" /\ ~panicked) => ENABLED OldSubUnsubscribe(p)
       /\ (pc[p] = "done" /\ ~panicked) => ENABLED OldSubUnsubscribeAgain(p)

\* The same claim for the Unsubscribe of message/receiver.go, whose select
\* has the case <-rc.hub.stop: a call never panics and touches no other
\* Reader; it closes the queue and removes the entry when the Reader is
\* registered (or leaves that to hub.run's stop case once hub.stop is
\* closed), changes nothing when the Reader is not registered, and can
\* always be completed.
UnsubscribeIdempotent ==
    /\ [][\A p \in Subscribers :
             ((pc[p] = "unsub" /\ pc'[p] = "done")
                 \/ (pc[p] = "done" /\ pc'[p] = "over"))
             => /\ panicked' = panicked
                /\ \A q \in Readers \ {p} :
                      /\ bufClosed'[q] = bufClosed[q]
                      /\ buf'[q] = buf[q]
                      /\ (q \in readers') = (q \in readers)
                /\ IF p \in readers
                   THEN \/ p \notin readers' /\ bufClosed'[p] /\ ~bufClosed[p]
                        \/ hubStop /\ p \in readers' /\ bufClosed'[p] = bufClosed[p]
                   ELSE p \notin readers' /\ bufClosed'[p] = bufClosed[p]
         ]_vars
    /\ [](\A p \in Subscribers :
             /\ (pc[p] = "unsub" /\ ~panicked) => ENABLED SubUnsubscribe(p)
             /\ (pc[p] = "done" /\ ~panicked) => ENABLED SubUnsubscribeAgain(p))

\* C29 as claimed, for the Receiver.run of unnamed/part_002: once a read of
\* the connection has failed the loop is over and the connection was closed
\* once, and the loop is never left blocked on a publish: the message in its
\* hand can always be handed over or dropped, also after Stop.
C29_ReaderLoopTerminates ==
    /\ rpc = "done" => connCloses = 1
    /\ (rpc = "publish" /\ ~panicked) => ENABLED OldHubPublish

\* The same claim for the Receiver.run of message/receiver.go, whose publish
\* is a select with the case <-rc.hub.stop and which closes the done channel
\* it was given: after a failed read the loop is over for good, with the
\* connection closed once and done closed, and a publish can always be
\* completed.
ReaderLoopTerminatesAndSignals ==
    /\ [](rpc = "done" => (connCloses = 1 /\ clientStop))
    /\ [](clientStop => rpc = "done")
    /\ []((rpc = "publish" /\ ~panicked) => ENABLED HubPublish)
    /\ [][rpc = "done" => UNCHANGED <<rpc, connCloses, clientStop>>]_vars

(***************************************************************************)
(* Spec: a Client after NewClient has returned it.  initSession and        *)
(* initDeviceList have sent the requests 1 and 2 and got their replies;    *)
(* pingLoop, eventLoop and the goroutine that waits for the context are    *)
(* running.  A user may call Close and cancel the context at any time.     *)
(* The server answers the requests it was sent with Ok or Error, sends     *)
(* device events of its own, and the connection may fail at any time.      *)
(***************************************************************************)
\* The goroutines that call Client.Close.
Closers == {"ping", "api", "watch"}

callVars == <<value, id, hit, result, pings>>

tableVars == <<devices, gen, closes>>

onceVars == <<closeOnce, td, closedBy>>

envVars == <<ctxDone, srvReqs, srvDev, scanCtx>>

\* A user's goroutine calls c.Close().
ApiClose(p) ==
    /\ pc[p] = "idle"
    /\ pc' = [pc EXCEPT ![p] = "close"]

\* The context given to NewClient is cancelled.
Cancel ==
    /\ ~panicked
    /\ ~ctxDone
    /\ ctxDone' = TRUE
    /\ UNCHANGED <<senderVars, panicked, hubVars, recvVars, procVars,
                   onceVars, callVars, srvReqs, srvDev, scanCtx, tableVars,
                   cmdVars>>

ClientApiClose ==
    /\ ~panicked
    /\ ApiClose("api")
    /\ UNCHANGED <<senderVars, panicked, hubVars, recvVars, seen, clientVars>>

ClientWatcher ==
    /\ ~panicked
    /\ WatcherSelect("watch")
    /\ UNCHANGED <<senderVars, panicked, hubVars, recvVars, seen, clientVars>>

ClientCloseEnter ==
    /\ ~panicked
    /\ \E p \in Closers : CloseEnter(p)
    /\ UNCHANGED <<senderVars, panicked, hubVars, recvVars, seen, callVars,
                   envVars, tableVars, cmdVars>>

ClientCloseSenderStop ==
    /\ ~panicked
    /\ \E p \in Closers : CloseSenderStop(p)
    /\ UNCHANGED <<out, wlpc, v, writes, closeMsg, accepted, sendCalls,
                   lateSends, lastSend, panicked, hubVars, recvVars, seen,
                   closeOnce, closedBy, callVars, envVars, tableVars, cmdVars>>

ClientCloseSenderStop2 ==
    /\ ~panicked
    /\ \E p \in Closers : CloseSenderStop2(p)
    /\ UNCHANGED <<out, wlpc, v, writes, closeMsg, accepted, sendCalls,
                   lateSends, lastSend, panicked, hubVars, recvVars, seen,
                   onceVars, callVars, envVars, tableVars, cmdVars>>

ClientCloseReceiverStop ==
    /\ ~panicked
    /\ \E p \in Closers : CloseReceiverStop(p)
    /\ UNCHANGED <<senderVars, panicked, recvVars, seen, closeOnce, closedBy,
                   callVars, envVars, tableVars, cmdVars>>

ClientCloseWait ==
    /\ ~panicked
    /\ \E p \in Closers : CloseWait(p)
    /\ UNCHANGED <<senderVars, panicked, hubVars, recvVars, seen, closeOnce,
                   closedBy, callVars, envVars, tableVars, cmdVars>>

ClientCloseConn ==
    /\ ~panicked
    /\ \E p \in Closers : CloseConn(p)
    /\ UNCHANGED <<senderVars, panicked, hubVars, rpc, msgs, clientStop,
                   readErr, srvNext, seen, callVars, envVars, tableVars,
                   cmdVars>>

PingDone ==
    /\ ~panicked
    /\ PingLoopDone("ping")
    /\ UNCHANGED <<senderVars, panicked, hubVars, recvVars, seen, onceVars,
                   envVars, tableVars, cmdVars>>

PingTimer ==
    /\ ~panicked
    /\ pings < MaxPings
    /\ PingLoopTimer("ping")
    /\ UNCHANGED <<senderVars, panicked, hubVars, recvVars, seen, onceVars,
                   envVars, tableVars, cmdVars>>

PingSend ==
    /\ \E p \in Callers : SendMessageSend(p)
    /\ UNCHANGED <<outClosed, senderStop, senderOnce, wlpc, v, writes,
                   closeMsg, hubVars, recvVars, seen, onceVars, value, id,
                   hit, pings, envVars, tableVars, cmdVars>>

PingSubscribe ==
    /\ \E p \in Callers : ReceiveSubscribe(p)
    /\ UNCHANGED <<senderVars, recvVars, onceVars, value, id, hit, pings,
                   envVars, tableVars, cmdVars>>

PingWait ==
    /\ ~panicked
    /\ \E p \in Callers : ReceiveWait(p)
    /\ UNCHANGED <<senderVars, panicked, recvVars, onceVars, value, id, hit,
                   pings, envVars, tableVars, cmdVars>>

PingUnsubscribe ==
    /\ \E p \in Callers : ReceiveUnsubscribe(p)
    /\ UNCHANGED <<senderVars, recvVars, onceVars, value, id, hit, result,
                   pings, envVars, tableVars, cmdVars>>

PingReturn ==
    /\ ~panicked
    /\ \E p \in Callers : SendMessageReturn(p)
    /\ UNCHANGED <<senderVars, panicked, hubVars, recvVars, seen, onceVars,
                   value, pings, envVars, tableVars, cmdVars>>

ClientEventLoop ==
    /\ ~panicked
    /\ EventLoop("events")
    /\ UNCHANGED <<senderVars, recvVars, onceVars, callVars, envVars, cmdVars>>

\* writeLoop's WriteJSON on the client's connection: a frame written
\* without error reaches the server; no frame does once the connection was
\* closed.
ClientWrite ==
    /\ \E err \in WriteErrors :
          /\ connCloses > 0 => err # "nil"
          /\ WriteLoopWrite(err)
          /\ srvReqs' = IF err = "nil" THEN srvReqs \cup {v} ELSE srvReqs
    /\ UNCHANGED <<out, outClosed, senderStop, senderOnce, accepted,
                   sendCalls, lateSends, lastSend, panicked, hubVars,
                   recvVars, procVars, onceVars, callVars, ctxDone, srvDev,
                   scanCtx, tableVars, cmdVars>>

\* Receiver.run reads the server's reply to a request: Ok or Error with the
\* ID of the request.
ServerReply ==
    /\ \E i \in srvReqs, kind \in {"Ok", "Error"} :
          /\ RunRead(<<Msg(kind, i)>>)
          /\ srvReqs' = srvReqs \ {i}
    /\ UNCHANGED <<srvNext, senderVars, panicked, hubVars, procVars,
                   onceVars, callVars, ctxDone, srvDev, scanCtx, tableVars,
                   cmdVars>>

\* Receiver.run reads a device event, a message with ID 0: the server
\* reports a device added.
ServerEvent ==
    /\ srvNext < MaxEvents
    /\ \E i \in {1} :
          /\ RunRead(<<DevMsg("DeviceAdded", i)>>)
          /\ srvDev' = srvDev \cup {i}
    /\ srvNext' = srvNext + 1
    /\ UNCHANGED <<senderVars, panicked, hubVars, procVars, onceVars,
                   callVars, ctxDone, srvReqs, scanCtx, tableVars, cmdVars>>

\* Receiver.run hands a message to the hub; the call whose ID it carries is
\* marked when the hub takes it.
ClientPublish ==
    /\ RunPublish
    /\ hit' = [p \in Callers |->
                 hit[p] \/ (pub' # pub /\ Head(msgs).id = id[p] /\ Outstanding(p))]
    /\ UNCHANGED <<srvNext, senderVars, procVars, onceVars, value, id,
                   result, pings, envVars, tableVars, cmdVars>>

Init ==
    /\ out = <<>>
    /\ outClosed = FALSE
    /\ senderStop = FALSE
    /\ senderOnce = "new"
    /\ wlpc = "range"
    /\ v = 0
    /\ writes = <<1, 2>>
    /\ closeMsg = FALSE
    /\ accepted = <<1, 2>>
    /\ sendCalls = 2
    /\ lateSends = 0
    /\ lastSend = [id |-> 2, res |-> "nil", once |-> "new", len |-> 0]
    /\ panicked = FALSE
    /\ readers = {"events"}
    /\ buf = [r \in Readers |-> <<>>]
    /\ bufClosed = [r \in Readers |-> FALSE]
    /\ hubStop = FALSE
    /\ hubDone = FALSE
    /\ pub = <<Msg("ServerInfo", 1), Msg("DeviceList", 2)>>
    /\ ReceiverInit
    /\ srvNext = 0
    /\ pc = [p \in {"ping", "api", "watch", "events"} |->
               CASE p = "ping" -> "idle"
                 [] p = "api" -> "idle"
                 [] p = "watch" -> "select"
                 [] p = "events" -> "recv"]
    /\ seen = [r \in Readers |-> IF r = "events" THEN 2 ELSE 0]
    /\ value = 2
    /\ ctxDone = FALSE
    /\ closeOnce = "new"
    /\ td = [s \in CloseSteps |-> 0]
    /\ closedBy = {}
    /\ id = [p \in Callers |-> 0]
    /\ hit = [p \in Callers |-> FALSE]
    /\ result = [p \in Callers |-> "none"]
    /\ srvReqs = {}
    /\ pings = 0
    /\ devices = [i \in DevIdx |-> IF i \in Snapshot THEN 1 ELSE 0]
    /\ gen = [i \in DevIdx |-> IF i \in Snapshot THEN 1 ELSE 0]
    /\ closes = [h \in {<<i, 1>> : i \in Snapshot} |-> 0]
    /\ srvDev = Snapshot
    /\ scanCtx = FALSE
    /\ CmdOff

Next ==
    \/ Cancel
    \/ ClientApiClose
    \/ ClientWatcher
    \/ ClientCloseEnter
    \/ ClientCloseSenderStop
    \/ ClientCloseSenderStop2
    \/ ClientCloseReceiverStop
    \/ ClientCloseWait
    \/ ClientCloseConn
    \/ PingDone
    \/ PingTimer
    \/ PingSend
    \/ PingSubscribe
    \/ PingWait
    \/ PingUnsubscribe
    \/ PingReturn
    \/ ClientEventLoop
    \/ WorkerRange
    \/ ClientWrite
    \/ WorkerClose
    \/ ServerReply
    \/ ServerEvent
    \/ HubReadErr
    \/ ClientPublish
    \/ HubStopped

Spec == Init /\ [][Next]_vars

(***************************************************************************)
(* Claims about the Client, checked under Spec.                            *)
(***************************************************************************)
\* C1 as claimed, granted even that the context is not cancelled and the
\* client not closed: when the hub took a message with the ID of the request
\* from hub.incoming while the call was outstanding, receiveMessage returns
\* that message, not a timeout nor "reader stopped".
C1_MatchingReplyReturned ==
    \A p \in Callers :
       (pc[p] = "ret" /\ hit[p] /\ ~ctxDone /\ ~hubStop)
          => result[p] \in {"Ok", "Error"}

C10_TeardownOnce ==
    /\ \A s \in CloseSteps : td[s] <= 1
    /\ td["conn"] <= td["wait"]
    /\ td["wait"] <= td["receiver"]
    /\ td["receiver"] <= td["sender"]
    /\ td["sender"] <= td["enter"]
    /\ td["receiver"] = 1 => (senderOnce = "done" /\ hubStop)
    /\ td["wait"] = 1 => rpc = "done"
    /\ td["conn"] = 1 => connCloses >= 1
    /\ closedBy # {} => (closeOnce = "done" /\ \A s \in CloseSteps : td[s] = 1)

\* C10 witness: the user, the goroutine NewClient started and pingLoop have
\* all called Close and returned from it.
C10_Witness ==
    /\ closedBy = Closers
    /\ td["conn"] = 1

\* C12 as claimed: over the life of a session the transport's Close is
\* called at most once, the call of Receiver.run after a failed read and the
\* call of Client.Close counted together.
C12_TransportClosedAtMostOnce ==
    connCloses <= 1

\* C27: the subscription of sendMessage is registered before the request is
\* handed to the sender: whenever the hub publishes the reply to a request
\* that was submitted and whose call is outstanding, the caller's Reader is
\* registered and the reply is appended to its queue.
C27_SubscribedBeforeSend ==
    [][\A p \in Callers :
          (pub' # pub /\ Published.id = id[p] /\ Outstanding(p))
              => /\ p \in readers
                 /\ buf'[p] = Append(buf[p], Published)
      ]_vars

\* C33: a keep-alive tick whose Send runs when Close has stopped the sender
\* and closed its outbound queue (the reader's done channel is closed later
\* or never) gets the "stopped" error from Send: it does not send on the
\* closed queue, which would panic.
C33_LateSendFailsCleanly ==
    [][(pc["ping"] = "send" /\ outClosed /\ sendCalls' # sendCalls)
          => /\ ~panicked'
             /\ lastSend'.res = "stopped"
      ]_vars

(***************************************************************************)
(* SpecLive: Spec with the scheduling of the program's goroutines.  Every  *)
(* goroutine that can take a step takes one in the end.  Nothing is        *)
(* assumed of the user, the context, the server or the connection: the     *)
(* server need not answer and a read need not fail.                        *)
(***************************************************************************)
SpecLive ==
    /\ Spec
    /\ WF_vars(ClientWatcher)
    /\ WF_vars(ClientCloseEnter)
    /\ WF_vars(ClientCloseSenderStop)
    /\ WF_vars(ClientCloseSenderStop2)
    /\ WF_vars(ClientCloseReceiverStop)
    /\ WF_vars(ClientCloseWait)
    /\ WF_vars(ClientCloseConn)
    /\ WF_vars(PingDone)
    /\ WF_vars(PingSend)
    /\ WF_vars(PingSubscribe)
    /\ WF_vars(PingWait)
    /\ WF_vars(PingUnsubscribe)
    /\ WF_vars(PingReturn)
    /\ WF_vars(ClientEventLoop)
    /\ WF_vars(WorkerRange)
    /\ WF_vars(ClientWrite)
    /\ WF_vars(WorkerClose)
    /\ WF_vars(ClientPublish)
    /\ WF_vars(HubStopped)

\* The positions of a goroutine inside Client.Close.
InClose == {"close", "sstop", "sstop2", "rstop", "cwait", "cconn"}

\* C11 as claimed: no execution panics, and every call of Close returns in
\* the end, whoever calls it and whatever the server does.
C11_EveryCloseReturns ==
    /\ [](~panicked)
    /\ \A p \in Closers : (pc[p] \in InClose) ~> (pc[p] \notin InClose)

\* The second part of C11 alone, executions that panic set aside.
CloseReturnsUnlessPanic ==
    \A p \in Closers : (pc[p] \in InClose) ~> (pc[p] \notin InClose \/ panicked)

\* The positions of a caller inside sendMessage.
InCall == {"send", "subscribe", "wait", "unsub", "ret"}

\* C13 as claimed: once a read of the connection has failed the whole
\* teardown runs, every step of Close once, and the calls that were waiting
\* for a reply return; from the return of hub.run on a waiter's queue is
\* closed, so that it need not wait for its timeout.
C13_ReadFailureTearsDown ==
    /\ (rpc = "done") ~>
          /\ \A st \in CloseSteps : td[st] = 1
          /\ hubDone
          /\ readers = {}
          /\ \A p \in Callers : pc[p] \notin InCall
    /\ [](\A p \in Callers : (hubDone /\ pc[p] = "wait") => bufClosed[p])

\* The same with the executions that panic set aside.
ReadFailureTearsDownUnlessPanic ==
    (rpc = "done") ~>
       \/ panicked
       \/ /\ \A st \in CloseSteps : td[st] = 1
          /\ hubDone
          /\ readers = {}
          /\ \A p \in Callers : pc[p] \notin InCall

\* C23: when a keep-alive Ping was not acknowledged (sendMessage returned an
\* error to pingLoop, which then calls Close) the session is torn down in the
\* end: the sender is stopped, the hub is stopped and the connection is
\* closed.  Executions that panic are set aside.
C23_FailedPingTearsDown ==
    (pc["ping"] = "close") ~>
        \/ panicked
        \/ /\ senderStop
           /\ hubStop
           /\ connCloses >= 1

\* C31: once the context is cancelled pingLoop's goroutine exits in the end,
\* whether the cancellation finds it in its select or with a Ping waiting
\* for the reply.  Executions that panic are set aside.
C31_PingLoopExits ==
    (ctxDone /\ pc["ping"] \in {"idle", "wait"})
        ~> (pc["ping"] = "done" \/ panicked)

(***************************************************************************)
(* SpecDev: the device table.  NewClient is inside initDeviceList: the     *)
(* RequestDeviceList with ID 2 was sent and has reached the server, and    *)
(* receiveMessage is about to subscribe.  The server answers with the      *)
(* DeviceList of the devices of Snapshot (or with an Error) and then sends *)
(* DeviceAdded, DeviceRemoved and ScanningFinished messages as it likes.   *)
(* initDeviceList fills the table, subscribes and starts eventLoop; then   *)
(* a user calls WaitOnScanning.  The context of the client and the one     *)
(* given to WaitOnScanning can be cancelled and the Receiver be stopped    *)
(* (by Close) at any time.                                                 *)
(***************************************************************************)
\* The messages the server sends unasked.
DevEvents ==
    {DevMsg(kind, i) : kind \in {"DeviceAdded", "DeviceRemoved"}, i \in DevIdx}
       \cup {Msg("ScanningFinished", 0)}

\* The server's device list after it has sent m.
SrvAfter(m) ==
    CASE m.kind = "DeviceAdded" -> srvDev \cup {m.dev}
      [] m.kind = "DeviceRemoved" -> srvDev \ {m.dev}
      [] OTHER -> srvDev

\* Receiver.run reads the server's reply to RequestDeviceList.
DevReply ==
    /\ \E n \in srvReqs, kind \in {"DeviceList", "Error"} :
          /\ RunRead(<<Msg(kind, n)>>)
          /\ srvReqs' = srvReqs \ {n}
    /\ UNCHANGED <<srvNext, senderVars, panicked, hubVars, procVars,
                   onceVars, callVars, ctxDone, srvDev, scanCtx, tableVars,
                   cmdVars>>

\* Receiver.run reads a message the server sent unasked.
DevEvent ==
    /\ srvReqs = {}
    /\ srvNext < MaxDevEvents
    /\ \E m \in DevEvents :
          /\ RunRead(<<m>>)
          /\ srvDev' = SrvAfter(m)
    /\ srvNext' = srvNext + 1
    /\ UNCHANGED <<senderVars, panicked, hubVars, procVars, onceVars,
                   callVars, ctxDone, srvReqs, scanCtx, tableVars, cmdVars>>

\* The context given to WaitOnScanning is cancelled or its deadline passes.
ScanCancel ==
    /\ ~panicked
    /\ ~scanCtx
    /\ scanCtx' = TRUE
    /\ UNCHANGED <<senderVars, panicked, hubVars, recvVars, procVars,
                   onceVars, callVars, ctxDone, srvReqs, srvDev, tableVars,
                   cmdVars>>

\* initDeviceList: m, err := c.receiveMessage(ctx, id).
InitSubscribe ==
    /\ ReceiveSubscribe("init")
    /\ UNCHANGED <<senderVars, recvVars, onceVars, value, id, hit, pings,
                   envVars, tableVars, cmdVars>>

InitWait ==
    /\ ~panicked
    /\ ReceiveWait("init")
    /\ UNCHANGED <<senderVars, panicked, recvVars, onceVars, value, id, hit,
                   pings, envVars, tableVars, cmdVars>>

InitUnsubscribe ==
    /\ ReceiveUnsubscribe("init")
    /\ UNCHANGED <<senderVars, recvVars, onceVars, value, id, hit, result,
                   pings, envVars, tableVars, cmdVars>>

\* initDeviceList after receiveMessage: return its error; else
\* dl := *m.DeviceList, a nil pointer when the reply is no DeviceList.
InitReply ==
    /\ ~panicked
    /\ pc["init"] = "ret"
    /\ CASE result["init"] = "DeviceList" ->
              /\ pc' = [pc EXCEPT !["init"] = "list"]
              /\ UNCHANGED panicked
         [] result["init"] = "Error" ->
              /\ panicked' = TRUE
              /\ UNCHANGED pc
         [] OTHER ->
              /\ pc' = [pc EXCEPT !["init"] = "failed"]
              /\ UNCHANGED panicked
    /\ UNCHANGED <<senderVars, hubVars, recvVars, seen, clientVars>>

\* initDeviceList, "for _, d := range dl.Devices { c.addDevice(d) }": the
\* next device of the list, in the order of the list.
InitList ==
    /\ ~panicked
    /\ pc["init"] = "list"
    /\ IF \E i \in Snapshot : gen[i] = 0
       THEN /\ \E i \in Snapshot :
                 /\ gen[i] = 0
                 /\ \A j \in Snapshot : j < i => gen[j] > 0
                 /\ addDevice(i)
            /\ UNCHANGED pc
       ELSE /\ pc' = [pc EXCEPT !["init"] = "evsub"]
            /\ UNCHANGED tableVars
    /\ UNCHANGED <<senderVars, panicked, hubVars, recvVars, seen, onceVars,
                   callVars, envVars, cmdVars>>

\* initDeviceList: s := c.receiver.Subscribe(); go c.eventLoop(s); return.
\* Without a Reader (the Receiver is stopped) no eventLoop runs.
InitEventSubscribe ==
    /\ pc["init"] = "evsub"
    /\ \E ok \in BOOLEAN :
          /\ Subscribe("events", ok)
          /\ pc' = [pc EXCEPT !["init"] = "done",
                              !["events"] = IF ok THEN "recv" ELSE "done"]
    /\ UNCHANGED <<senderVars, recvVars, clientVars>>

DevEventLoop ==
    /\ ~panicked
    /\ EventLoop("events")
    /\ UNCHANGED <<senderVars, recvVars, onceVars, callVars, envVars, cmdVars>>

\* A user calls WaitOnScanning on the client that NewClient returned.
ScanCall ==
    /\ ~panicked
    /\ pc["init"] = "done"
    /\ pc["scan"] = "idle"
    /\ pc' = [pc EXCEPT !["scan"] = "subscribe"]
    /\ UNCHANGED <<senderVars, panicked, hubVars, recvVars, seen, clientVars>>

\* WaitOnScanning: r := c.receiver.Subscribe().
ScanSubscribe ==
    /\ pc["scan"] = "subscribe"
    /\ \E ok \in BOOLEAN :
          /\ Subscribe("scan", ok)
          /\ IF ok
             THEN /\ pc' = [pc EXCEPT !["scan"] = "wait"]
                  /\ UNCHANGED result
             ELSE /\ pc' = [pc EXCEPT !["scan"] = "ret"]
                  /\ result' = [result EXCEPT !["scan"] = "stopped"]
    /\ UNCHANGED <<senderVars, recvVars, onceVars, value, id, hit, pings,
                   envVars, tableVars, cmdVars>>

\* Mutant of ScanWait: any message ends the wait with nil.
ScanWaitAnyMessage ==
    /\ ~panicked
    /\ pc["scan"] = "wait"
    /\ \/ /\ Recv("scan")
          /\ result' = [result EXCEPT !["scan"] = "nil"]
          /\ pc' = [pc EXCEPT !["scan"] = "unsub"]
       \/ /\ buf["scan"] = <<>>
          /\ bufClosed["scan"]
          /\ result' = [result EXCEPT !["scan"] = "reader stopped"]
          /\ pc' = [pc EXCEPT !["scan"] = "unsub"]
          /\ UNCHANGED <<hubVars, seen>>
       \/ /\ scanCtx
          /\ result' = [result EXCEPT !["scan"] = "canceled"]
          /\ pc' = [pc EXCEPT !["scan"] = "unsub"]
          /\ UNCHANGED <<hubVars, seen>>
    /\ UNCHANGED <<senderVars, panicked, recvVars, onceVars, value, id, hit,
                   pings, envVars, tableVars, cmdVars>>

\* WaitOnScanning's select loop: a ScanningFinished ends the wait with nil,
\* any other message is skipped; a closed queue gives "reader stopped";
\* ctx.Done() gives ctx.Err().
ScanWait ==
    /\ ~panicked
    /\ pc["scan"] = "wait"
    /\ \/ /\ Recv("scan")
          /\ IF Head(buf["scan"]).kind = "ScanningFinished"
             THEN /\ result' = [result EXCEPT !["scan"] = "nil"]
                  /\ pc' = [pc EXCEPT !["scan"] = "unsub"]
             ELSE UNCHANGED <<result, pc>>
       \/ /\ buf["scan"] = <<>>
          /\ bufClosed["scan"]
          /\ result' = [result EXCEPT !["scan"] = "reader stopped"]
          /\ pc' = [pc EXCEPT !["scan"] = "unsub"]
          /\ UNCHANGED <<hubVars, seen>>
       \/ /\ scanCtx
          /\ result' = [result EXCEPT !["scan"] = "canceled"]
          /\ pc' = [pc EXCEPT !["scan"] = "unsub"]
          /\ UNCHANGED <<hubVars, seen>>
    /\ UNCHANGED <<senderVars, panicked, recvVars, onceVars, value, id, hit,
                   pings, envVars, tableVars, cmdVars>>

\* WaitOnScanning: defer c.receiver.Unsubscribe(r), and the return.
ScanUnsubscribe ==
    /\ pc["scan"] = "unsub"
    /\ Unsubscribe("scan")
    /\ DropReader("scan")
    /\ pc' = [pc EXCEPT !["scan"] = "ret"]
    /\ UNCHANGED <<senderVars, recvVars, onceVars, value, id, hit, result,
                   pings, envVars, tableVars, cmdVars>>

InitDev ==
    /\ out = <<>>
    /\ outClosed = FALSE
    /\ senderStop = FALSE
    /\ senderOnce = "new"
    /\ wlpc = "range"
    /\ v = 0
    /\ writes = <<1, 2>>
    /\ closeMsg = FALSE
    /\ accepted = <<1, 2>>
    /\ sendCalls = 2
    /\ lateSends = 0
    /\ lastSend = [id |-> 2, res |-> "nil", once |-> "new", len |-> 0]
    /\ panicked = FALSE
    /\ readers = {}
    /\ buf = [r \in Readers |-> <<>>]
    /\ bufClosed = [r \in Readers |-> FALSE]
    /\ hubStop = FALSE
    /\ hubDone = FALSE
    /\ pub = <<Msg("ServerInfo", 1)>>
    /\ ReceiverInit
    /\ srvNext = 0
    /\ pc = [p \in {"init", "events", "scan"} |->
               CASE p = "init" -> "subscribe"
                 [] p = "events" -> "off"
                 [] p = "scan" -> "idle"]
    /\ seen = [r \in Readers |-> 0]
    /\ value = 2
    /\ ctxDone = FALSE
    /\ closeOnce = "new"
    /\ td = [st \in CloseSteps |-> 0]
    /\ closedBy = {}
    /\ id = [p \in {"init"} |-> 2]
    /\ hit = [p \in {"init"} |-> FALSE]
    /\ result = [p \in {"init", "scan"} |-> "none"]
    /\ srvReqs = {2}
    /\ pings = 0
    /\ DevicesInit
    /\ srvDev = Snapshot
    /\ scanCtx = FALSE
    /\ CmdOff

NextDev ==
    \/ DevReply
    \/ DevEvent
    \/ HubPublish
    \/ HubStopCall
    \/ HubStopped
    \/ Cancel
    \/ ScanCancel
    \/ InitSubscribe
    \/ InitWait
    \/ InitUnsubscribe
    \/ InitReply
    \/ InitList
    \/ InitEventSubscribe
    \/ DevEventLoop
    \/ ScanCall
    \/ ScanSubscribe
    \/ ScanWait
    \/ ScanUnsubscribe

SpecDev == InitDev /\ [][NextDev]_vars

\* SpecDev with the scheduling of the goroutines that are inside
\* receiveMessage and WaitOnScanning: one that can take its step takes it.
SpecDevLive ==
    /\ SpecDev
    /\ WF_vars(InitSubscribe)
    /\ WF_vars(InitWait)
    /\ WF_vars(InitUnsubscribe)
    /\ WF_vars(ScanSubscribe)
    /\ WF_vars(ScanWait)
    /\ WF_vars(ScanUnsubscribe)

(***************************************************************************)
(* Claims about the device table, checked under SpecDev.                   *)
(***************************************************************************)
\* eventLoop takes the message m from its Reader in this step.
Applies(m) ==
    /\ pc["events"] = "recv"
    /\ buf["events"] # <<>>
    /\ Head(buf["events"]) = m
    /\ seen'["events"] = seen["events"] + 1

\* C18: when eventLoop applies a DeviceRemoved for an index the table has,
\* the entry of that index is removed, every other entry stays as it is,
\* the handle the table held for the index gets its done channel closed,
\* for the first time, and no other handle is touched.
C18_RemoveClosesAndDeletes ==
    [][\A i \in DevIdx :
          (Applies(DevMsg("DeviceRemoved", i)) /\ devices[i] # 0)
             => /\ devices'[i] = 0
                /\ \A j \in DevIdx \ {i} : devices'[j] = devices[j]
                /\ closes[Handle(i)] = 0
                /\ closes'[Handle(i)] = 1
                /\ \A h \in DOMAIN closes \ {Handle(i)} : closes'[h] = closes[h]
                /\ ~panicked'
      ]_vars

\* C18 witness: the table was filled from the list of the devices 0 and 1,
\* a DeviceRemoved for 1 was applied: the table holds 0 only and the handle
\* of 1 is closed.
C18_Witness ==
    /\ gen = [i \in DevIdx |-> 1]
    /\ devices[0] = 1
    /\ devices[1] = 0
    /\ closes[<<1, 1>>] = 1
    /\ closes[<<0, 1>>] = 0
    /\ ~panicked

\* Nothing the server sent is on its way: Receiver.run has read and
\* published every message, eventLoop runs and its queue is empty, and the
\* session is live.
Settled ==
    /\ ~panicked
    /\ ~hubStop
    /\ srvReqs = {}
    /\ rpc = "read"
    /\ msgs = <<>>
    /\ Len(pub) = 2 + srvNext
    /\ pc["events"] = "recv"
    /\ buf["events"] = <<>>
    /\ ~bufClosed["events"]

\* C19 as claimed, taken in the settled states only: an index the table
\* holds belongs to a device the server listed or reported added and has
\* not reported removed since.
C19_TableWithinServerList ==
    Settled => \A i \in DevIdx : devices[i] # 0 => i \in srvDev

\* C20: close(dev.done) is executed at most once on every handle, whatever
\* DeviceAdded and DeviceRemoved messages the server sends.
C20_DisconnectAtMostOnce ==
    \A h \in DOMAIN closes : closes[h] <= 1

\* C20 witness: DeviceRemoved for 1 was applied twice: the first closed the
\* handle of 1 and deleted the entry, the second found no entry (and
\* eventLoop panicked); device 0 is as listed.
C20_Witness ==
    /\ panicked
    /\ gen = [i \in DevIdx |-> 1]
    /\ devices[0] = 1
    /\ devices[1] = 0
    /\ closes[<<1, 1>>] = 1

\* The goroutines inside a blocking wait: initDeviceList inside
\* receiveMessage and the caller of WaitOnScanning.
Waiters == {"init", "scan"}

\* The context of the wait of p is done.
Fired(p) == IF p = "scan" THEN scanCtx ELSE ctxDone

ScanTakes ==
    /\ pc["scan"] = "wait"
    /\ buf["scan"] # <<>>
    /\ seen'["scan"] = seen["scan"] + 1

\* C21: WaitOnScanning leaves its loop with nil exactly in a step that takes
\* a ScanningFinished from its own Reader; taking a message changes no
\* other Reader; and when hub.run takes a ScanningFinished every registered
\* Reader with room gets it appended, whoever else is subscribed.
C21_ScanningFinishedShared ==
    [][/\ (pc["scan"] = "wait" /\ pc'["scan"] = "unsub")
            => (result'["scan"] = "nil"
                  <=> (ScanTakes /\ Head(buf["scan"]).kind = "ScanningFinished"))
       /\ (ScanTakes /\ Head(buf["scan"]).kind = "ScanningFinished")
            => (pc'["scan"] = "unsub" /\ result'["scan"] = "nil")
       /\ ScanTakes
            => /\ readers' = readers
               /\ \A r \in Readers \ {"scan"} :
                     buf'[r] = buf[r] /\ bufClosed'[r] = bufClosed[r]
       /\ (pub' # pub /\ Published.kind = "ScanningFinished")
            => \A r \in readers :
                  Len(buf[r]) < readerBuf => buf'[r] = Append(buf[r], Published)
      ]_vars

\* C21 witness: WaitOnScanning has returned nil, and the ScanningFinished it
\* took is the next message in the queue of eventLoop's Reader as well.
C21_Witness ==
    /\ pc["scan"] = "ret"
    /\ result["scan"] = "nil"
    /\ "events" \in readers
    /\ buf["events"] # <<>>
    /\ Head(buf["events"]).kind = "ScanningFinished"
    /\ ~panicked

\* C32: when eventLoop applies a DeviceRemoved for an index the table does
\* not hold (never added, or removed before), the table and the handles stay
\* as they are, nothing panics and eventLoop goes on reading.
C32_RemoveAbsentIsNoOp ==
    [][\A i \in DevIdx :
          (Applies(DevMsg("DeviceRemoved", i)) /\ devices[i] = 0)
             => /\ devices' = devices
                /\ closes' = closes
                /\ ~panicked'
                /\ pc'["events"] = "recv"
      ]_vars

\* C35: the Reader of eventLoop is registered before the device list is
\* taken: every DeviceAdded or DeviceRemoved that hub.run takes after
\* initDeviceList received the DeviceList reply, in a session that is live,
\* is appended to the queue of eventLoop's Reader.
C35_NoEventLostDuringSync ==
    [][(/\ pub' # pub
        /\ Published.kind \in {"DeviceAdded", "DeviceRemoved"}
        /\ result["init"] = "DeviceList"
        /\ ~hubStop /\ ~ctxDone /\ ~panicked)
          => /\ "events" \in readers
             /\ buf'["events"] = Append(buf["events"], Published)
      ]_vars

\* C40: when receiveMessage gave initDeviceList a reply to RequestDeviceList
\* that is an Error, the next step of initDeviceList returns an error to
\* NewClient: nothing panics and eventLoop is not started.
C40_ErrorReplyFailsInit ==
    [][(/\ pc["init"] = "ret"
        /\ result["init"] = "Error"
        /\ <<pc["init"], panicked>>' # <<pc["init"], panicked>>)
          => /\ ~panicked'
             /\ pc'["init"] = "failed"
             /\ pc'["events"] = "off"
      ]_vars

\* C38: when eventLoop applies a DeviceRemoved for an index the table holds,
\* every handle the table has held for that index (each could have been
\* returned by Devices()) has its done channel closed afterwards, also a
\* handle that a later DeviceAdded for the index replaced in the table.
C38_EveryHandleSignalled ==
    [][\A i \in DevIdx :
          (Applies(DevMsg("DeviceRemoved", i)) /\ devices[i] > 0)
             => \A h \in DOMAIN closes : h[1] = i => closes'[h] > 0
      ]_vars

(***************************************************************************)
(* SpecWatch: eventLoop and the hub.  initDeviceList has returned: the     *)
(* table holds the devices of Snapshot, the Reader of eventLoop is         *)
(* registered and eventLoop runs.  The server sends DeviceAdded and        *)
(* DeviceRemoved messages for device 0; Receiver.run hands them to hub.run *)
(* and eventLoop applies them whenever it gets to run (it waits for the    *)
(* table's lock while a caller of Devices() holds it).                     *)
(***************************************************************************)
\* The number of messages the server sends in SpecWatch.
MaxWatchEvents == 11

WatchEvents == {DevMsg(kind, 0) : kind \in {"DeviceAdded", "DeviceRemoved"}}

InitWatch ==
    /\ out = <<>>
    /\ outClosed = FALSE
    /\ senderStop = FALSE
    /\ senderOnce = "new"
    /\ wlpc = "range"
    /\ v = 0
    /\ writes = <<1, 2>>
    /\ closeMsg = FALSE
    /\ accepted = <<1, 2>>
    /\ sendCalls = 2
    /\ lateSends = 0
    /\ lastSend = [id |-> 2, res |-> "nil", once |-> "new", len |-> 0]
    /\ panicked = FALSE
    /\ readers = {"events"}
    /\ buf = [r \in Readers |-> <<>>]
    /\ bufClosed = [r \in Readers |-> r = "init"]
    /\ hubStop = FALSE
    /\ hubDone = FALSE
    /\ pub = <<Msg("ServerInfo", 1), Msg("DeviceList", 2)>>
    /\ ReceiverInit
    /\ srvNext = 0
    /\ pc = [p \in {"init", "events", "scan"} |->
               CASE p = "init" -> "done"
                 [] p = "events" -> "recv"
                 [] p = "scan" -> "idle"]
    /\ seen = [r \in Readers |-> IF r = "events" THEN 2 ELSE 0]
    /\ value = 2
    /\ ctxDone = FALSE
    /\ closeOnce = "new"
    /\ td = [st \in CloseSteps |-> 0]
    /\ closedBy = {}
    /\ id = [p \in {"init"} |-> 2]
    /\ hit = [p \in {"init"} |-> FALSE]
    /\ result = [p \in {"init", "scan"} |->
                   IF p = "init" THEN "DeviceList" ELSE "none"]
    /\ srvReqs = {}
    /\ pings = 0
    /\ devices = [i \in DevIdx |-> IF i \in Snapshot THEN 1 ELSE 0]
    /\ gen = [i \in DevIdx |-> IF i \in Snapshot THEN 1 ELSE 0]
    /\ closes = [h \in {<<i, 1>> : i \in Snapshot} |-> 0]
    /\ srvDev = Snapshot
    /\ scanCtx = FALSE
    /\ CmdOff

\* Receiver.run reads a DeviceAdded or DeviceRemoved the server sent.
WatchEvent ==
    /\ srvNext < MaxWatchEvents
    /\ \E m \in WatchEvents :
          /\ RunRead(<<m>>)
          /\ srvDev' = SrvAfter(m)
    /\ srvNext' = srvNext + 1
    /\ UNCHANGED <<senderVars, panicked, hubVars, procVars, onceVars,
                   callVars, ctxDone, srvReqs, scanCtx, tableVars, cmdVars>>

NextWatch ==
    \/ WatchEvent
    \/ HubPublish
    \/ DevEventLoop

SpecWatch == InitWatch /\ [][NextWatch]_vars

\* C34: as long as the session is live (the hub is not stopped and nothing
\* panicked) the Reader of eventLoop stays registered and its queue open, so
\* that eventLoop is still reading and every message published reaches it.
C34_WatcherNeverEvicted ==
    (~hubStop /\ ~panicked)
       => /\ "events" \in readers
          /\ ~bufClosed["events"]
          /\ pc["events"] = "recv"

(***************************************************************************)
(* SpecCmd: a user calls the command methods of a device handle on a       *)
(* running client, one call at a time.  The handle's DeviceMessages, the   *)
(* command and its arguments are free, and so is the state of the ID       *)
(* counter the session has reached.  The worker writes the requests; the   *)
(* server answers a request with a message of any kind that carries its    *)
(* ID, or not at all, and sends messages of its own with ID 0.             *)
(***************************************************************************)
CmdCallers == {"cmd"}

\* The DeviceMessages of the handles: those of a device of the test server,
\* and the other commands, so that every command is supported by one handle
\* and not by the other.
CapSets == {{"FleshlightLaunchFW12Cmd", "KiirooCmd", "RawCmd", "StopDeviceCmd"},
            {"SingleMotorVibrateCmd", "LovenseCmd"}}

\* The float64 speeds of the calls: below, at the ends of and above
\* [0.0, 1.0], and NaN.
Speeds == {NaN, F(0 - 1), F(0), F(SpeedScale), F(SpeedScale + 1)}

\* The int arguments of the calls, around the ends of the ranges.
KiirooArgs == {F(0 - 1), F(0), F(maxKiiroo), F(maxKiiroo + 1)}

LaunchArgs == {F(0 - 1), F(0), F(maxLaunch), F(maxLaunch + 1)}

\* The calls: StopDeviceCmd(), RawCmd(cmd), LovenseCmd(cmd), whose
\* arguments no test looks at, SingleMotorVibrateCmd(spd), KiirooCmd(cmd)
\* and FleshlightLaunchFW12Cmd(pos, spd), each on the handle of device d.
CallInputs ==
    {[cmd |-> c, msgs |-> ms, a |-> x, b |-> y, prev |-> 0,
          dev |-> d, index |-> 0] :
        c \in {"StopDeviceCmd", "RawCmd", "LovenseCmd"}, ms \in CapSets,
        x \in {F(0)}, y \in {F(0)}, d \in DevIdx}
    \cup {[cmd |-> c, msgs |-> ms, a |-> x, b |-> y, prev |-> 0,
          dev |-> d, index |-> 0] :
        c \in {"SingleMotorVibrateCmd"}, ms \in CapSets,
        x \in Speeds, y \in {F(0)}, d \in DevIdx}
    \cup {[cmd |-> c, msgs |-> ms, a |-> x, b |-> y, prev |-> 0,
          dev |-> d, index |-> 0] :
        c \in {"KiirooCmd"}, ms \in CapSets,
        x \in KiirooArgs, y \in {F(0)}, d \in DevIdx}
    \cup {[cmd |-> c, msgs |-> ms, a |-> x, b |-> y, prev |-> 0,
          dev |-> d, index |-> 0] :
        c \in {"FleshlightLaunchFW12Cmd"}, ms \in CapSets,
        x \in LaunchArgs, y \in LaunchArgs, d \in DevIdx}

\* The ErrorMessage texts of the server.
ErrorTexts == {"e1", "e2"}

\* The messages the server answers the request n with: one of any variant,
\* or an element that populates no variant.
Replies(n) ==
    {TextMsg(k, n, "") : k \in Kinds \ {"Error"}}
    \cup {TextMsg("Error", n, t) : t \in ErrorTexts}
    \cup {UnknownMsg(n)}

CmdCall ==
    /\ ~panicked
    /\ sendCalls < MaxCmds
    /\ \E c \in CallInputs : DeviceCmd("cmd", c)
    /\ UNCHANGED <<senderVars, panicked, hubVars, recvVars, seen, onceVars,
                   pings, envVars, tableVars, reply, interval>>

CmdSend ==
    /\ CmdSendMessageSend("cmd")
    /\ UNCHANGED <<outClosed, senderStop, senderOnce, wlpc, v, writes,
                   closeMsg, hubVars, recvVars, seen, onceVars, value, id,
                   hit, result, pings, envVars, tableVars, call, reply,
                   interval>>

CmdSubscribe ==
    /\ ReceiveSubscribe("cmd")
    /\ UNCHANGED <<senderVars, recvVars, onceVars, value, id, hit, pings,
                   envVars, tableVars, cmdVars>>

CmdWait ==
    /\ CmdReceiveWait("cmd")
    /\ UNCHANGED <<senderVars, panicked, recvVars, onceVars, value, id, hit,
                   pings, envVars, tableVars, call, ret, interval>>

CmdUnsubscribe ==
    /\ ReceiveUnsubscribe("cmd")
    /\ UNCHANGED <<senderVars, recvVars, onceVars, value, id, hit, result,
                   pings, envVars, tableVars, cmdVars>>

CmdReturn ==
    /\ ~panicked
    /\ CmdSendMessageReturn("cmd")
    /\ UNCHANGED <<senderVars, panicked, hubVars, recvVars, seen, onceVars,
                   callVars, envVars, tableVars, call, reply, interval>>

\* Receiver.run reads the server's answer to a request.
CmdReply ==
    /\ \E n \in srvReqs :
          /\ \E r \in Replies(n) : RunRead(<<r>>)
          /\ srvReqs' = srvReqs \ {n}
    /\ UNCHANGED <<srvNext, senderVars, panicked, hubVars, procVars,
                   onceVars, callVars, ctxDone, srvDev, scanCtx, tableVars,
                   cmdVars>>

\* Receiver.run reads a message the server sends unasked, with ID 0.
CmdEvent ==
    /\ srvNext < MaxEvents
    /\ RunRead(<<TextMsg("ScanningFinished", 0, "")>>)
    /\ srvNext' = srvNext + 1
    /\ UNCHANGED <<senderVars, panicked, hubVars, procVars, clientVars>>

InitCmd ==
    /\ SenderInit
    /\ panicked = FALSE
    /\ HubInit
    /\ ReceiverInit
    /\ srvNext = 0
    /\ pc = [p \in CmdCallers |-> "idle"]
    /\ seen = [r \in Readers |-> 0]
    /\ value \in 0..(IDModulus - 1)
    /\ ctxDone = FALSE
    /\ closeOnce = "new"
    /\ td = [s \in CloseSteps |-> 0]
    /\ closedBy = {}
    /\ id = [p \in CmdCallers |-> 0]
    /\ hit = [p \in CmdCallers |-> FALSE]
    /\ result = [p \in CmdCallers |-> "none"]
    /\ srvReqs = {}
    /\ pings = 0
    /\ DevicesInit
    /\ srvDev = {}
    /\ scanCtx = FALSE
    /\ CmdOff

NextCmd ==
    \/ CmdCall
    \/ CmdSend
    \/ CmdSubscribe
    \/ CmdWait
    \/ CmdUnsubscribe
    \/ CmdReturn
    \/ WorkerRange
    \/ ClientWrite
    \/ CmdReply
    \/ CmdEvent
    \/ HubPublish

SpecCmd == InitCmd /\ [][NextCmd]_vars

(***************************************************************************)
(* Claims about device commands, the ID counter and sendMessage's result,  *)
(* checked under SpecCmd.                                                  *)
(***************************************************************************)
\* C24: Generate returns the previous value plus 1, and 1 after the largest
\* value of the counter; it never returns 0, whatever state the counter is
\* in, a fresh one (0) included.  The value returned is the ID of the call.
C24_GenerateSkipsZero ==
    [][value' # value =>
          /\ value' = (IF value = IDModulus - 1 THEN 1 ELSE value + 1)
          /\ value' # 0
          /\ id'["cmd"] = value'
          /\ call'.prev = value
      ]_vars

\* C24 witness: Generate was called on the largest value and gave 1.
C24_Witness ==
    /\ pc["cmd"] = "send"
    /\ call.prev = IDModulus - 1
    /\ id["cmd"] = 1
    /\ value = 1

\* C22: when sendMessage returns, its result is nil exactly if receiveMessage
\* returned the reply with the call's ID and that reply is an Ok; it is the
\* server error that carries the reply's ErrorMessage exactly if the reply
\* is an Error; for a reply of any other kind it is "did not receive ok".
\* The reply is a message the hub published.
C22_ReplyTranslated ==
    [][(pc["cmd"] = "ret" /\ pc'["cmd"] = "idle") =>
          /\ (ret'.err = "nil") <=>
                (result["cmd"] = "Ok" /\ reply.kind = "Ok"
                    /\ reply.id = id["cmd"])
          /\ result["cmd"] \in Kinds =>
                /\ reply.id = id["cmd"]
                /\ reply.kind = result["cmd"]
                /\ \E k \in 1..Len(pub) : pub[k] = reply
                /\ (ret'.err = "server error") <=> (reply.kind = "Error")
                /\ reply.kind = "Error" => ret'.text = reply.text
                /\ reply.kind \notin {"Ok", "Error"} =>
                      ret' = Err("did not receive ok")
          /\ result["cmd"] \notin Kinds => ret' = Err(result["cmd"])
      ]_vars

\* C22 witness: a command got a DeviceList with its ID for a reply and
\* returned "did not receive ok".
C22_Witness ==
    /\ pc["cmd"] = "idle"
    /\ ret = Err("did not receive ok")
    /\ reply.kind = "DeviceList"
    /\ reply.id = id["cmd"]
    /\ id["cmd"] # 0

\* The arguments of the call c lie in the ranges its command documents: a
\* speed in [0.0, 1.0], a Kiiroo command in 0..4, a position and a speed in
\* 0..99.
ArgsInRange(c) ==
    CASE c.cmd = "SingleMotorVibrateCmd" ->
            ~c.a.nan /\ 0 <= c.a.val /\ c.a.val <= SpeedScale
      [] c.cmd = "KiirooCmd" -> 0 <= c.a.val /\ c.a.val <= maxKiiroo
      [] c.cmd = "FleshlightLaunchFW12Cmd" ->
            /\ 0 <= c.a.val /\ c.a.val <= maxLaunch
            /\ 0 <= c.b.val /\ c.b.val <= maxLaunch
      [] OTHER -> TRUE

\* The invalid-argument errors of the command of the call c.
ArgErrors(c) ==
    CASE c.cmd = "SingleMotorVibrateCmd" -> {"invalid speed"}
      [] c.cmd = "KiirooCmd" -> {"invalid command"}
      [] c.cmd = "FleshlightLaunchFW12Cmd" ->
            {"invalid position", "invalid speed"}
      [] OTHER -> {}

\* A step in which the user calls a command.
CallStep == pc["cmd"] = "idle" /\ (call' # call \/ pc'["cmd"] = "send")

\* The call of a CallStep is answered as C26 says.
RejectedRight ==
    /\ call'.cmd \notin call'.msgs =>
          /\ ret' = Err("unsupported command")
          /\ UNCHANGED <<value, id, pc, out, sendCalls, readers, buf>>
    /\ (call'.cmd \in call'.msgs /\ ~ArgsInRange(call')) =>
          /\ ret'.err \in ArgErrors(call')
          /\ UNCHANGED <<value, id, pc, out, sendCalls, readers, buf>>

\* C26: a command the handle's DeviceMessages do not list returns
\* ErrUnsupported, and a supported one called with an argument outside its
\* range returns the invalid-argument error of the command; either way the
\* call takes no ID, hands nothing to the sender and registers no Reader.
C26_RejectedWithoutEffect == [][CallStep => RejectedRight]_vars

\* The same for the calls whose speed is a number: NaN is the one argument
\* outside its range that is let through.
RejectedUnlessNaN == [][(CallStep /\ ~call'.a.nan) => RejectedRight]_vars

(***************************************************************************)
(* SpecSession: the end of initSession.  The request RequestServerInfo     *)
(* with ID 1 was sent and receiveMessage has returned the server's reply:  *)
(* a ServerInfo that advertises any MaxPingTime up to MaxAdvertised, or a  *)
(* message of another kind.  initSession starts pingLoop with the period   *)
(* it computes, or fails.                                                  *)
(***************************************************************************)
SessionReplies ==
    {ServerInfoMsg(1, mpt) : mpt \in 0..MaxAdvertised}
    \cup {[kind |-> k, id |-> 1, text |-> "", MaxPingTime |-> 0] :
             k \in {"Ok", "Error"}}

SessionNoInfo ==
    /\ ~panicked
    /\ InitSessionNoInfo
    /\ UNCHANGED <<senderVars, panicked, hubVars, recvVars, seen, onceVars,
                   callVars, envVars, tableVars, call, reply>>

SessionStart ==
    /\ ~panicked
    /\ InitSessionStart
    /\ UNCHANGED <<senderVars, panicked, hubVars, recvVars, seen, onceVars,
                   callVars, envVars, tableVars, call, reply>>

InitSession ==
    /\ SenderInit
    /\ panicked = FALSE
    /\ HubInit
    /\ ReceiverInit
    /\ srvNext = 0
    /\ pc = [p \in {"init", "ping"} |-> IF p = "init" THEN "info" ELSE "off"]
    /\ seen = [r \in Readers |-> 0]
    /\ value = 1
    /\ ctxDone = FALSE
    /\ closeOnce = "new"
    /\ td = [s \in CloseSteps |-> 0]
    /\ closedBy = {}
    /\ id = [p \in Callers |-> 0]
    /\ hit = [p \in Callers |-> FALSE]
    /\ result = [p \in Callers |-> "none"]
    /\ srvReqs = {}
    /\ pings = 0
    /\ DevicesInit
    /\ srvDev = {}
    /\ scanCtx = FALSE
    /\ call = NoCall
    /\ reply \in SessionReplies
    /\ ret = Err("none")
    /\ interval = 0

NextSession ==
    \/ SessionNoInfo
    \/ SessionStart

SpecSession == InitSession /\ [][NextSession]_vars

\* C30: pingLoop is started with half the MaxPingTime the server advertised
\* (the integer half, in milliseconds) whenever that is not 0, and with one
\* second only when it is 0.
C30_HalfAdvertisedInterval ==
    pc["ping"] # "off" =>
        /\ reply.MaxPingTime # 0 => interval = reply.MaxPingTime \div 2
        /\ reply.MaxPingTime = 0 => interval = second

\* The same for the values below one second, for which alone the code
\* halves: the period is the integer half, one second for 0, and one second
\* as well from 1000 on.
HalfBelowOneSecond ==
    pc["ping"] # "off" =>
        /\ (reply.MaxPingTime # 0 /\ reply.MaxPingTime < second)
              => interval = reply.MaxPingTime \div 2
        /\ reply.MaxPingTime = 0 => interval = second
        /\ reply.MaxPingTime >= second => interval = second

\* C36: the message a device command hands to sendMessage carries the
\* DeviceIndex of the handle the command was called on.
C36_CommandCarriesDeviceIndex ==
    [][(CallStep /\ pc'["cmd"] = "send") => call'.index = call'.dev]_vars

\* C39: a goroutine waiting in receiveMessage waits for an ID that is not
\* 0, and the message it accepts as the reply has a populated variant and
\* carries that ID: a message the server sent unasked (ID 0) and an element
\* with no populated variant are passed over.
C39_WaiterAcceptsOnlyItsReply ==
    [][/\ pc["cmd"] = "wait" => id["cmd"] # 0
       /\ (pc["cmd"] = "wait" /\ pc'["cmd"] = "unsub"
              /\ seen'["cmd"] # seen["cmd"])
            => /\ Head(buf["cmd"]).kind \in Kinds
               /\ Head(buf["cmd"]).id = id["cmd"]
               /\ Head(buf["cmd"]).id # 0
      ]_vars

\* C39 witness: the waiter has read both a message with ID 0 and an element
\* of no variant that has the ID it waits for inside, and is still waiting.
C39_Witness ==
    /\ pc["cmd"] = "wait"
    /\ buf["cmd"] = <<>>
    /\ seen["cmd"] = 2
    /\ Len(pub) = 2
    /\ \E k \in 1..2 : pub[k] = UnknownMsg(id["cmd"])
    /\ \E k \in 1..2 : pub[k] = TextMsg("ScanningFinished", 0, "")

====
